---------------------------- MODULE Spec2Model ----------------------------
(***************************************************************************)
(* A model of wyrand-rs: the wyrand generator and the wyhash hasher.       *)
(*                                                                         *)
(* TLC's integers are 32 bits wide, so a u64 is a tuple of 8 bytes, least  *)
(* significant byte first, and a u128 a tuple of 16.  Every operation on   *)
(* them is computed on the bytes with the width the source gives it: a     *)
(* wrapping add drops the carry out of the top byte, a cast keeps the low  *)
(* bytes, a 128-bit multiply keeps the low 16 bytes of the product.        *)
(***************************************************************************)
EXTENDS Integers, Sequences, FiniteSets, TLC

VARIABLES
    mx,       \* the mixing primitive under test: its two inputs and results
    impl,     \* which generator implementation the two generators run
    rng,      \* a generator, WyRand::new(seed)
    cloned,   \* its clone, rng.clone()
    himpl,    \* which hasher implementation runs
    overflow_checks,  \* whether the build checks integer overflow (dev profile)
    made,     \* how the hasher was constructed: constructor and arguments
    hasher,   \* the hasher: seed, lo, hi, size, secret
    twin,     \* a second hasher and what its finish returned, for comparing two runs
    panicked, \* whether a call on the hasher has panicked
    last,     \* the last call on the hasher: operation, argument, state before, result
    source,   \* the generator a new generator is seeded from
    making,   \* a run of make_secret: its seed, secret, i and the last candidate
    primality,  \* a call of is_prime: which one, its argument and what it returned
    SECRET,   \* the process-wide OnceLock of the randomised builder
    threads,  \* the threads that call RandomWyHashState::new, each with its position
    entropy   \* the entropy source: how often it was drawn from and what it gave

gvars == <<impl, rng, cloned, source>>
hvars == <<himpl, overflow_checks, made, hasher, twin, panicked, last>>
svars == <<making, primality>>
bvars == <<SECRET, threads, entropy>>
vars == <<mx, impl, rng, cloned, source, himpl, overflow_checks, made, hasher, twin,
          panicked, last, making, primality, SECRET, threads, entropy>>

---------------------------------------------------------------------------
(* Words.                                                                  *)

\* a ^ b on bytes, by bits
RECURSIVE XorBits(_, _, _)
XorBits(a, b, n) ==
    IF n = 0 THEN 0
    ELSE ((a + b) % 2) + 2 * XorBits(a \div 2, b \div 2, n - 1)

XorByte == [a \in 0..255 |-> [b \in 0..255 |-> XorBits(a, b, 8)]]

\* ^ on two integers of the same width
xor(a, b) ==
    IF Len(a) = 8
    THEN << XorByte[a[1]][b[1]], XorByte[a[2]][b[2]], XorByte[a[3]][b[3]], XorByte[a[4]][b[4]],
            XorByte[a[5]][b[5]], XorByte[a[6]][b[6]], XorByte[a[7]][b[7]], XorByte[a[8]][b[8]] >>
    ELSE [i \in 1..Len(a) |-> XorByte[a[i]][b[i]]]

\* the literal 0xaaaa_bbbb_cccc_dddd as a u64
W64(a, b, c, d) ==
    << d % 256, d \div 256, c % 256, c \div 256,
       b % 256, b \div 256, a % 256, a \div 256 >>

\* a small integer n (below 2^31) as a u64
U64(n) ==
    << n % 256, (n \div 256) % 256, (n \div 65536) % 256, n \div 16777216,
       0, 0, 0, 0 >>

Zero64 == U64(0)
MaxU64 == [i \in 1..8 |-> 255]

\* the bytes of a + b + c from byte i on, followed by the carry out
RECURSIVE AddBytes(_, _, _, _)
AddBytes(a, b, i, c) ==
    IF i > Len(a) THEN << c >>
    ELSE LET s == a[i] + b[i] + c
         IN  << s % 256 >> \o AddBytes(a, b, i + 1, s \div 256)

\* u64::wrapping_add: the carry out of bit 63 is dropped
wrapping_add(a, b) == SubSeq(AddBytes(a, b, 1, 0), 1, Len(a))

\* whether a + b does not fit the width of a and b
add_overflows(a, b) == AddBytes(a, b, 1, 0)[Len(a) + 1] = 1

\* `x as u128` of a u64
as_u128(x) == x \o Zero64

\* `x as u64` of a u128: the low 64 bits
as_u64(x) == SubSeq(x, 1, 8)

\* u128::wrapping_shr(64)
wrapping_shr_64(x) == SubSeq(x, 9, 16) \o Zero64

\* column k of the schoolbook product: the sum of x[i] * y[j], i + j = k + 1
RECURSIVE ColumnSum(_, _, _, _)
ColumnSum(x, y, k, i) ==
    IF i > k THEN 0
    ELSE x[i] * y[k + 1 - i] + ColumnSum(x, y, k, i + 1)

RECURSIVE MulBytes(_, _, _, _)
MulBytes(x, y, k, c) ==
    IF k > Len(x) THEN << >>
    ELSE LET s == ColumnSum(x, y, k, 1) + c
         IN  << s % 256 >> \o MulBytes(x, y, k + 1, s \div 256)

\* u128::wrapping_mul: the low 128 bits of the product
wrapping_mul(x, y) == MulBytes(x, y, 1, 0)

---------------------------------------------------------------------------
(* src/utils.rs: the mixing primitive.                                     *)

\* (total as u64, total.wrapping_shr(64) as u64)
Halves(total) == << as_u64(total), as_u64(wrapping_shr_64(total)) >>

\* a plausible slip: the product taken in 64 bits, so that hi is lost
wymul_truncated(first, second) ==
    Halves(as_u128(as_u64(wrapping_mul(as_u128(first), as_u128(second)))))

\* wymul: (lo, hi) of the 128-bit product
wymul(first, second) == Halves(wrapping_mul(as_u128(first), as_u128(second)))

\* lo ^ hi
XorHalves(p) == xor(p[1], p[2])

wymix(first, second) == XorHalves(wymul(first, second))

---------------------------------------------------------------------------
(* src/constants.rs: the constants of the two revisions.                   *)

Revisions == {"v4_2", "v4"}

WY0(r) == IF r = "v4_2" THEN W64(\h2d35, \h8dcc, \haa6c, \h78a5)
                        ELSE W64(\ha076, \h1d64, \h78bd, \h642f)
WY1(r) == IF r = "v4_2" THEN W64(\h8bb8, \h4b93, \h962e, \hacc9)
                        ELSE W64(\he703, \h7ed1, \ha0b4, \h28db)
WY2(r) == IF r = "v4_2" THEN W64(\h4b33, \ha62e, \hd433, \hd4a3)
                        ELSE W64(\h8ebc, \h6af0, \h9c88, \hc6e3)
WY3(r) == IF r = "v4_2" THEN W64(\h4d5a, \h2da5, \h1de1, \haa47)
                        ELSE W64(\h5899, \h65cc, \h7537, \h4cc3)

---------------------------------------------------------------------------
(* Inputs.                                                                 *)

MaxSample == 5
MaxDraws == 3

\* words at the corners of the 64-bit range, then words of mixed bytes
CornerWords ==
    << Zero64, U64(1), MaxU64, W64(0, 1, 0, 0), W64(\h8000, 0, 0, 0),
       U64(123), W64(0, 0, \hffff, \hffff),
       \* 2^64 - WY0 of either revision: the seed whose first draw wraps to 0
       W64(\hd2ca, \h7233, \h5593, \h875b), W64(\h5f89, \he29b, \h8742, \h9bd1) >>

SampleWord(i) ==
    IF i < Len(CornerWords) THEN CornerWords[i + 1]
    ELSE [j \in 1..8 |-> (i * (58 * j + 11) + 7 * j) % 256]

Samples == { SampleWord(i) : i \in 0..MaxSample }

---------------------------------------------------------------------------
(* The mixing primitive, applied to sampled inputs.                        *)

NoWord == << >>


CallWymul ==
    /\ mx.mul = NoWord
    /\ mx' = [mx EXCEPT !.mul = wymul(mx.first, mx.second)]
    /\ UNCHANGED <<gvars, hvars, svars, bvars>>

CallWymix ==
    /\ mx.mix = NoWord
    /\ mx' = [mx EXCEPT !.mix = wymix(mx.first, mx.second)]
    /\ UNCHANGED <<gvars, hvars, svars, bvars>>

IdleMix == [first |-> Zero64, second |-> Zero64, mul |-> NoWord, mix |-> NoWord]

---------------------------------------------------------------------------
(* The generator: src/final_v4_2/wyrand.rs, src/legacy_final_v4/wyrand.rs  *)
(* and the first generator of src/lib.rs.                                  *)

Impls == {"final_v4_2", "legacy_final_v4", "lib"}

\* the constants an implementation is built with
RevOf(i) == IF i = "final_v4_2" THEN "v4_2" ELSE "v4"

\* a plausible slip: the state that is kept is the one XORed with WY1
gen_u64_keeps_xor(seed, r) ==
    LET s == xor(wrapping_add(seed, WY0(r)), WY1(r))
    IN  << wymix(s, xor(s, WY1(r))), s >>

\* a plausible slip: the value is mixed from the state before the addition
gen_u64_stale(seed, r) ==
    << wymix(seed, xor(seed, WY1(r))), seed >>

\* WyRand::gen_u64 and WyRandLegacy::gen_u64: (value, new state)
gen_u64(seed, r) ==
    LET s == wrapping_add(seed, WY0(r))
    IN  << wymix(s, xor(s, WY1(r))), s >>

\* WyRand::rand of src/lib.rs: (value, new state)
lib_rand(state) ==
    LET s == wrapping_add(state, W64(\ha076, \h1d64, \h78bd, \h642f))
        t == wrapping_mul(as_u128(s),
                          as_u128(xor(s, W64(\he703, \h7ed1, \ha0b4, \h28db))))
    IN  << as_u64(xor(wrapping_shr_64(t), t)), s >>

\* rand(&mut self) of implementation i: (value, new state)
rand(i, state) ==
    IF i = "lib" THEN lib_rand(state) ELSE gen_u64(state, RevOf(i))

\* WyRand::new
new(state) == [state |-> state, prev |-> state, out |-> << >>]

\* one draw on generator g
Draw(g) ==
    LET r == rand(impl, g.state)
    IN  [state |-> r[2], prev |-> g.state, out |-> Append(g.out, r[1])]

---------------------------------------------------------------------------
(* src/read.rs: the byte reader.                                           *)

RECURSIVE OrBits(_, _, _)
OrBits(a, b, n) ==
    IF n = 0 THEN 0
    ELSE (IF (a % 2) + (b % 2) > 0 THEN 1 ELSE 0)
            + 2 * OrBits(a \div 2, b \div 2, n - 1)

OrByte == [a \in 0..255 |-> [b \in 0..255 |-> OrBits(a, b, 8)]]

\* | on two u64
or(a, b) ==
    << OrByte[a[1]][b[1]], OrByte[a[2]][b[2]], OrByte[a[3]][b[3]], OrByte[a[4]][b[4]],
       OrByte[a[5]][b[5]], OrByte[a[6]][b[6]], OrByte[a[7]][b[7]], OrByte[a[8]][b[8]] >>

\* x << n on a u64, n a multiple of 8: what is shifted past bit 63 is lost
shl(x, n) == [i \in 1..Len(x) |-> IF i > n \div 8 THEN x[i - n \div 8] ELSE 0]

\* `x as u64` of a narrower unsigned integer (u8 is one byte): zero extension
widen_u64(x) == x \o [i \in 1..(8 - Len(x)) |-> 0]

\* bits[k] as u64, k counted from 0 as in the source
byte_at(bits, k) == widen_u64(<< bits[k + 1] >>)

\* &bytes[start..]
slice_from(bytes, start) == SubSeq(bytes, start + 1, Len(bytes))

read_8_bytes(bits) ==
    or(shl(byte_at(bits, 7), 56),
    or(shl(byte_at(bits, 6), 48),
    or(shl(byte_at(bits, 5), 40),
    or(shl(byte_at(bits, 4), 32),
    or(shl(byte_at(bits, 3), 24),
    or(shl(byte_at(bits, 2), 16),
    or(shl(byte_at(bits, 1), 8), byte_at(bits, 0))))))))

\* a plausible slip: the four bytes are read big-endian
read_4_bytes_be(bits) ==
    or(shl(byte_at(bits, 0), 24),
    or(shl(byte_at(bits, 1), 16),
    or(shl(byte_at(bits, 2), 8), byte_at(bits, 3))))

read_4_bytes(bits) ==
    or(shl(byte_at(bits, 3), 24),
    or(shl(byte_at(bits, 2), 16),
    or(shl(byte_at(bits, 1), 8), byte_at(bits, 0))))

read_upto_3_bytes(bits) ==
    or(shl(byte_at(bits, 0), 16),
    or(shl(byte_at(bits, Len(bits) \div 2), 8), byte_at(bits, Len(bits) - 1)))

---------------------------------------------------------------------------
(* The hasher: src/final_v4_2/hasher.rs, src/legacy_final_v4/hasher.rs and *)
(* src/hasher.rs (built with or without the feature v4_2).                 *)

HasherImpls == {"final_v4_2", "legacy_final_v4", "hasher_v4_2", "hasher_v4"}

\* the implementations that define mix_current_seed and the fixed-width writes
Streaming == {"final_v4_2", "legacy_final_v4"}

\* the constants a hasher implementation is built with
HRevOf(i) == IF i \in {"final_v4_2", "hasher_v4_2"} THEN "v4_2" ELSE "v4"

\* Secret::new(WY0, WY1, WY2, WY3)
DefaultSecret(r) == << WY0(r), WY1(r), WY2(r), WY3(r) >>

\* Secret::first .. Secret::fourth
first(secret) == secret[1]
second(secret) == secret[2]
third(secret) == secret[3]
fourth(secret) == secret[4]

\* a plausible slip: the seed is replaced by the mix, not XORed with it
new_with_secret_no_xor(seed, secret) ==
    [ seed   |-> wymix(xor(seed, first(secret)), second(secret)),
      lo     |-> Zero64,
      hi     |-> Zero64,
      size   |-> Zero64,
      secret |-> secret ]

\* WyHash::new_with_secret
new_with_secret(seed, secret) ==
    [ seed   |-> xor(seed, wymix(xor(seed, first(secret)), second(secret))),
      lo     |-> Zero64,
      hi     |-> Zero64,
      size   |-> Zero64,
      secret |-> secret ]

\* WyHash::new_with_default_secret
new_with_default_secret(seed, r) == new_with_secret(seed, DefaultSecret(r))

\* impl Default for WyHash
default(r) == new_with_default_secret(U64(0), r)

---------------------------------------------------------------------------
(* Secrets: src/utils.rs, hasher/secret.rs, final_v4_2/secret.rs,          *)
(* legacy_final_v4/secret.rs.                                              *)

RECURSIVE SubBytes(_, _, _, _)
\* a - b byte by byte from the low end, with the borrow out of the top byte last
SubBytes(a, b, i, c) ==
    IF i > Len(a) THEN << c >>
    ELSE LET d == a[i] - b[i] - c
         IN  << d % 256 >> \o SubBytes(a, b, i + 1, IF d < 0 THEN 1 ELSE 0)

\* u64::wrapping_sub
wrapping_sub(a, b) == SubSeq(SubBytes(a, b, 1, 0), 1, Len(a))

\* a < b on unsigned integers of the same width
lt(a, b) == SubBytes(a, b, 1, 0)[Len(a) + 1] = 1

\* x >> 1 on a u64
shr1(x) ==
    << (x[1] \div 2) + (x[2] % 2) * 128, (x[2] \div 2) + (x[3] % 2) * 128,
       (x[3] \div 2) + (x[4] % 2) * 128, (x[4] \div 2) + (x[5] % 2) * 128,
       (x[5] \div 2) + (x[6] % 2) * 128, (x[6] \div 2) + (x[7] % 2) * 128,
       (x[7] \div 2) + (x[8] % 2) * 128, x[8] \div 2 >>

\* x << 1 with bit b shifted in, on one byte more than x so that nothing is lost
Shl1In(x, b) ==
    [i \in 1..(Len(x) + 1) |->
        IF i = 1 THEN ((x[1] * 2) % 256) + b
        ELSE IF i <= Len(x) THEN ((x[i] * 2) % 256) + (x[i - 1] \div 128)
        ELSE x[i - 1] \div 128]

\* x & 1 == 1
is_odd(x) == x[1] % 2 = 1

RECURSIVE LongRem(_, _, _, _)
\* the remainder of the bits n-1 .. 0 of x after the remainder r of the bits above
LongRem(x, m, n, r) ==
    IF n = 0 \/ r = << >> THEN r
    ELSE LET bit == (x[((n - 1) \div 8) + 1] \div (2 ^ ((n - 1) % 8))) % 2
             wide == Shl1In(r, bit)
             m9 == m \o << 0 >>
             next == IF lt(wide, m9) THEN SubSeq(wide, 1, Len(r))
                     ELSE SubSeq(wrapping_sub(wide, m9), 1, Len(r))
         IN  LongRem(x, m, n - 1, next)

\* x % m, m not 0
rem(x, m) ==
    IF lt(x, m) THEN x
    ELSE LET y == wrapping_sub(x, m)
         IN  IF lt(y, m) THEN y ELSE LongRem(x, m, 8 * Len(x), [i \in 1..Len(x) |-> 0])

RECURSIVE MulModLoop(_, _, _, _)
\* the loop of mul_mod: while b > 0
MulModLoop(a, b, m, r) ==
    IF b = Zero64 \/ r = << >> \/ a = << >> THEN r
    ELSE LET r2 == wrapping_add(r, a)
             r1 == IF is_odd(b)
                   THEN rem(IF lt(r2, r) THEN wrapping_sub(r2, m) ELSE r2, m)
                   ELSE r
             b1 == shr1(b)
             a2 == wrapping_add(a, a)
             a1 == IF b1 # Zero64
                   THEN rem(IF lt(a2, a) THEN wrapping_sub(a2, m) ELSE a2, m)
                   ELSE a
         IN  MulModLoop(a1, b1, m, r1)

\* mul_mod: a * b (mod m)
mul_mod(a, b, m) == MulModLoop(a, b, m, Zero64)

RECURSIVE PowModLoop(_, _, _, _)
\* the loop of pow_mod: while b > 0
PowModLoop(a, b, m, r) ==
    IF b = Zero64 \/ r = << >> \/ a = << >> THEN r
    ELSE LET r1 == IF is_odd(b) THEN mul_mod(r, a, m) ELSE r
             b1 == shr1(b)
             a1 == IF b1 # Zero64 THEN mul_mod(a, a, m) ELSE a
         IN  PowModLoop(a1, b1, m, r1)

\* pow_mod: a ^ b (mod m)
pow_mod(a, b, m) == PowModLoop(a, b, m, U64(1))

RECURSIVE ShrBits(_, _)
\* d >> n
ShrBits(d, n) == IF n = 0 THEN d ELSE ShrBits(shr1(d), n - 1)

\* a plausible slip: if in place of while, one shift by 8 at most
StripBytes_once(ds) ==
    IF ds[1][1] = 0 THEN << ShrBits(ds[1], 8), ds[2] + 8 >> ELSE ds

RECURSIVE StripBytes(_)
\* sprp: while (d & 0xff) == 0 { d >>= 8; s += 8 }
StripBytes(ds) ==
    IF ds[1][1] = 0 THEN StripBytes(<< ShrBits(ds[1], 8), ds[2] + 8 >>) ELSE ds

\* sprp: if (d & mask) == 0 { d >>= n; s += n }, mask = 2^n - 1
StripBits(ds, n) ==
    IF ds[1][1] % (2 ^ n) = 0 THEN << ShrBits(ds[1], n), ds[2] + n >> ELSE ds

\* sprp: d = n - 1 with its low zero bits shifted out, and their number s
StripZeros(n) ==
    StripBits(StripBits(StripBits(StripBytes(<< wrapping_sub(n, U64(1)), 0 >>), 4), 2), 1)

RECURSIVE SquareLoop(_, _, _, _)
\* sprp: if b <= 1 { return false } if b == n - 1 { return true } r += 1
Squared(b, n, r, s) ==
    IF b = Zero64 \/ b = U64(1) THEN FALSE
    ELSE IF b = wrapping_sub(n, U64(1)) THEN TRUE
    ELSE SquareLoop(b, n, r + 1, s)

\* sprp: while r < s { b = mul_mod(b, b, n); ... }
SquareLoop(b, n, r, s) ==
    IF r >= s THEN FALSE ELSE Squared(mul_mod(b, b, n), n, r, s)

\* sprp after let mut b = pow_mod(a, d, n)
Probable(b, n, s) ==
    IF b = U64(1) \/ b = wrapping_sub(n, U64(1)) THEN TRUE ELSE SquareLoop(b, n, 1, s)

\* sprp after d and s are found
ProbableFrom(n, a, ds) == Probable(pow_mod(U64(a), ds[1], n), n, ds[2])

\* sprp: strong probable primality of n to the base a
sprp(n, a) == ProbableFrom(n, a, StripZeros(n))

\* the bases is_prime tries after 2
Bases == { 3, 5, 7, 11, 13, 17, 19, 23, 29, 31, 37 }

\* is_prime: sprp(n, 2) || n < 2047 || sprp(n, 3) || ... || sprp(n, 37) for an
\* odd n above 3
is_prime(n) ==
    IF lt(n, U64(2)) THEN FALSE
    ELSE IF lt(n, U64(4)) THEN TRUE
    ELSE IF ~is_odd(n) THEN FALSE
    ELSE \/ lt(n, U64(2047))
         \/ \E a \in {2} \cup Bases : sprp(n, a)

\* is_prime of hasher/secret.rs: if !sprp(n, 2) { return false } if n < 2047
\* { return true } if !sprp(n, 3) { return false } ... for an odd n above 3
secret_is_prime(n) ==
    IF lt(n, U64(2)) THEN FALSE
    ELSE IF lt(n, U64(4)) THEN TRUE
    ELSE IF ~is_odd(n) THEN FALSE
    ELSE IF ~sprp(n, 2) THEN FALSE
    ELSE IF lt(n, U64(2047)) THEN TRUE
    ELSE \A b \in Bases : sprp(n, b)

C_VALUES ==
    << 15, 23, 27, 29, 30, 39, 43, 45, 46, 51, 53, 54, 57, 58, 60, 71, 75, 77, 78, 83, 85,
       86, 89, 90, 92, 99, 101, 102, 105, 106, 108, 113, 114, 116, 120, 135, 139, 141, 142,
       147, 149, 150, 153, 154, 156, 163, 165, 166, 169, 170, 172, 177, 178, 180, 184, 195,
       197, 198, 201, 202, 204, 209, 210, 212, 216, 225, 226, 228, 232, 240 >>

RECURSIVE RemUsize(_, _, _, _)
\* (value as usize) % len, len below 2^23: the remainder of the low k bytes of
\* value, the k bytes a usize of the target has, taken byte by byte from the
\* high end
RemUsize(value, len, k, r) ==
    IF k = 0 THEN r ELSE RemUsize(value, len, k - 1, (r * 256 + value[k]) % len)

\* size_of::<usize>() of a 64-bit and of a 32-bit target
Usize64 == 8

Usize32 == 4

\* make_secret: let random_index = (value as usize) % C_VALUES.len(), w the
\* bytes of a usize
random_index(value, w) == RemUsize(value, Len(C_VALUES), w, 0)

RECURSIVE OnesOfByte(_, _)
OnesOfByte(b, n) == IF n = 0 THEN 0 ELSE (b % 2) + OnesOfByte(b \div 2, n - 1)

OnesByte == [b \in 0..255 |-> OnesOfByte(b, 8)]

RECURSIVE SumOnes(_, _)
SumOnes(x, k) == IF k = 0 THEN 0 ELSE OnesByte[x[k]] + SumOnes(x, k - 1)

\* u64::count_ones
count_ones(x) == SumOnes(x, Len(x))

\* a plausible slip: the candidate is compared with the value before it only
check_for_valid_secret_value_last(current_value, secret) ==
    /\ is_odd(secret[current_value + 1])
    /\ current_value > 0 =>
          count_ones(xor(secret[current_value], secret[current_value + 1])) = 32

\* a plausible slip: while prev_value <= current_value, the candidate is
\* compared with itself too
check_for_valid_secret_value_inclusive(current_value, secret) ==
    /\ is_odd(secret[current_value + 1])
    /\ \A prev_value \in 0..current_value :
          count_ones(xor(secret[prev_value + 1], secret[current_value + 1])) = 32

\* check_for_valid_secret_value: secret[current_value] is odd and differs from
\* every earlier value in exactly 32 bits (current_value counted from 0)
check_for_valid_secret_value(current_value, secret) ==
    /\ is_odd(secret[current_value + 1])
    /\ \A prev_value \in 0..(current_value - 1) :
          count_ones(xor(secret[prev_value + 1], secret[current_value + 1])) = 32

\* make_secret: secret[i] = 0 before the lanes are filled
cleared(value) == Zero64

RECURSIVE FillLanes(_, _, _, _, _)
\* make_secret: secret[i] |= (C_VALUES[random_index] as u64) << j; j += 8, g
\* the (value, new_state) of WyRand::gen_u64(seed), w the bytes of a usize
Lane(r, w, value, g, j) ==
    FillLanes(r, w, or(value, shl(U64(C_VALUES[random_index(g[1], w) + 1]), j)),
              g[2], j + 8)

\* make_secret, while j < 64: the candidate and the generator state after the
\* draws that are left, <<secret[i], seed>>
FillLanes(r, w, value, seed, j) ==
    IF j >= 64 \/ value = << >> THEN << value, seed >>
    ELSE Lane(r, w, value, gen_u64(seed, r), j)

\* a plausible slip: a candidate is accepted as soon as it is odd (and, in
\* revision v4.2, prime)
ok_if_odd(r, secret, i) ==
    /\ is_odd(secret[i + 1])
    /\ r = "v4_2" => is_prime(secret[i + 1])

\* make_secret: ok = check_for_valid_secret_value(i, &secret), and in revision
\* v4.2 if ok && !is_prime(secret[i]) { ok = false }
ok(r, secret, i) ==
    /\ check_for_valid_secret_value(i, secret)
    /\ r = "v4_2" => is_prime(secret[i + 1])

RECURSIVE NextSecret(_, _, _, _)
\* make_secret: ok for the candidate c = <<secret[i], seed>>; the secret and the
\* generator state when it is, the next candidate when it is not
Candidate(r, secret, i, c) ==
    LET tried == [secret EXCEPT ![i + 1] = c[1]]
    IN  IF ok(r, tried, i)
        THEN << tried, c[2] >>
        ELSE NextSecret(r, secret, i, c[2])

\* make_secret, while !ok: the first candidate for secret[i] that is valid (and,
\* in revision v4.2, prime), and the generator state after it
NextSecret(r, secret, i, seed) ==
    Candidate(r, secret, i, FillLanes(r, Usize64, cleared(secret[i + 1]), seed, 0))

RECURSIVE SecretLoop(_, _, _, _)
\* make_secret: i += 1, n the <<secret, seed>> after secret[i] is found
Found(r, n, i) == SecretLoop(r, n[1], i + 1, n[2])

\* make_secret, while i < secret.len()
SecretLoop(r, secret, i, seed) ==
    IF i >= 4 THEN secret ELSE Found(r, NextSecret(r, secret, i, seed), i)

\* make_secret / make_secret_legacy of revision r
make_secret(seed, r) == SecretLoop(r, << Zero64, Zero64, Zero64, Zero64 >>, 0, seed)

\* WyHash::new
WyHash_new(seed, secret_seed, r) ==
    LET secret == make_secret(secret_seed, r)
    IN  IF secret = << >> THEN secret ELSE new_with_secret(seed, secret)

---------------------------------------------------------------------------
(* The hasher's writes and finish.                                         *)

\* a plausible slip: the test is that of the offset of the round's last read
is_over_48_bytes_early(i, length) ==
    IF HRevOf(i) = "v4_2" THEN length >= 40 ELSE length > 40

\* a plausible slip: both revisions take the strict comparison
is_over_48_bytes_strict(i, length) == length > 48

\* the test for entering and for repeating the 48-byte rounds
is_over_48_bytes(i, length) ==
    IF HRevOf(i) = "v4_2" THEN length >= 48 ELSE length > 48

\* the three-way rounds of consume_bytes: (index, start, seed, seed1, seed2)
RECURSIVE SuperBlocks(_, _, _, _, _, _, _, _)
SuperBlocks(i, secret, bytes, index, start, seed, seed1, seed2) ==
    IF is_over_48_bytes(i, index)
    THEN SuperBlocks(i, secret, bytes, index - 48, start + 48,
            wymix(xor(read_8_bytes(slice_from(bytes, start)), second(secret)),
                  xor(read_8_bytes(slice_from(bytes, start + 8)), seed)),
            wymix(xor(read_8_bytes(slice_from(bytes, start + 16)), third(secret)),
                  xor(read_8_bytes(slice_from(bytes, start + 24)), seed1)),
            wymix(xor(read_8_bytes(slice_from(bytes, start + 32)), fourth(secret)),
                  xor(read_8_bytes(slice_from(bytes, start + 40)), seed2)))
    ELSE << index, start, seed, seed1, seed2 >>

\* the 16-byte rounds of consume_bytes: the seed they leave
RECURSIVE Blocks(_, _, _, _, _)
Blocks(secret, bytes, index, start, seed) ==
    IF index > 16
    THEN Blocks(secret, bytes, index - 16, start + 16,
            wymix(xor(read_8_bytes(slice_from(bytes, start)), second(secret)),
                  xor(read_8_bytes(slice_from(bytes, start + 8)), seed)))
    ELSE seed

\* a plausible slip: seed1 and seed2 are not folded into the seed
AfterSuperBlocks_unfolded(secret, bytes, r) ==
    Blocks(secret, bytes, r[1], r[2], r[3])

\* consume_bytes after the 48-byte rounds left r = (index, start, seed, seed1,
\* seed2): seed ^= seed1 ^ seed2, then the 16-byte rounds
AfterSuperBlocks(secret, bytes, r) ==
    Blocks(secret, bytes, r[1], r[2], xor(r[3], xor(r[4], r[5])))

\* WyHash::consume_bytes: (lo, hi, seed)
consume_bytes(i, self, bytes) ==
    LET length == Len(bytes)
    IN  IF length = 0 THEN << Zero64, Zero64, self.seed >>
        ELSE IF length <= 3
        THEN << read_upto_3_bytes(bytes), Zero64, self.seed >>
        ELSE IF length <= 16
        THEN LET lo == or(shl(read_4_bytes(bytes), 32),
                          read_4_bytes(slice_from(bytes, (length \div 8) * 4)))
                 hi == or(shl(read_4_bytes(slice_from(bytes, length - 4)), 32),
                          read_4_bytes(slice_from(bytes,
                                          length - 4 - (length \div 8) * 4)))
             IN  << lo, hi, self.seed >>
        ELSE << read_8_bytes(slice_from(bytes, length - 16)),
                read_8_bytes(slice_from(bytes, length - 8)),
                IF is_over_48_bytes(i, length)
                THEN AfterSuperBlocks(self.secret, bytes,
                         SuperBlocks(i, self.secret, bytes, length, 0,
                                     self.seed, self.seed, self.seed))
                ELSE Blocks(self.secret, bytes, length, 0, self.seed) >>

\* a plausible slip: the pending chunk is folded in on the first write too
mix_current_seed_always(self) ==
    [self EXCEPT !.seed = wymix(self.lo, xor(self.hi, self.seed))]

\* a plausible slip: the pending size is kept in a static all hashers share
mix_current_seed_shared(self) ==
    IF hasher.size # Zero64
    THEN [self EXCEPT !.seed = wymix(self.lo, xor(self.hi, self.seed))]
    ELSE self

\* a plausible slip: the fold is xored into the seed, which it should replace
mix_current_seed_accumulating(self) ==
    IF self.size # Zero64
    THEN [self EXCEPT !.seed = xor(self.seed, wymix(self.lo, xor(self.hi, self.seed)))]
    ELSE self

\* WyHash::mix_current_seed
mix_current_seed(self) ==
    IF self.size # Zero64
    THEN [self EXCEPT !.seed = wymix(self.lo, xor(self.hi, self.seed))]
    ELSE self

\* self.size += n: [h |-> the hasher, panic |-> whether the addition panicked].
\* With overflow checks the addition panics when the sum passes 2^64 - 1 and
\* size keeps its value; without them the sum wraps.
add_assign_size(self, n, checks) ==
    IF checks /\ add_overflows(self.size, n)
    THEN [h |-> self, panic |-> TRUE]
    ELSE [h |-> [self EXCEPT !.size = wrapping_add(self.size, n)], panic |-> FALSE]

\* a plausible slip: the chunk is folded into the seed as it is stored, not
\* one write later
Stored_eager(self, c) ==
    [self EXCEPT !.lo = c[1], !.hi = c[2], !.seed = wymix(c[1], xor(c[2], c[3]))]

\* self.lo = lo; self.hi = hi; self.seed = seed, c the (lo, hi, seed) decoded
Stored(self, c) == [self EXCEPT !.lo = c[1], !.hi = c[2], !.seed = c[3]]

\* let (lo, hi, seed) = self.consume_bytes(bytes), then the assignments
Consumed(i, self, bytes) == Stored(self, consume_bytes(i, self, bytes))

\* Hasher::write before the size is counted
write_fields(i, self, bytes) ==
    IF i \in Streaming
    THEN Consumed(i, mix_current_seed(self), bytes)
    ELSE Consumed(i, self, bytes)

\* a plausible slip: an empty slice is not written at all
write_skipping_empty(i, self, bytes, checks) ==
    IF Len(bytes) = 0
    THEN [h |-> self, panic |-> FALSE]
    ELSE add_assign_size(write_fields(i, self, bytes), U64(Len(bytes)), checks)

\* Hasher::write.  In src/hasher.rs the body runs once per chunk of
\* bytes.chunks(u64::MAX as usize): never for an empty slice, once otherwise.
write(i, self, bytes, checks) ==
    IF i \notin Streaming /\ Len(bytes) = 0
    THEN [h |-> self, panic |-> FALSE]
    ELSE add_assign_size(write_fields(i, self, bytes), U64(Len(bytes)), checks)

\* Hasher::write of a slice of n bytes that consume_bytes decodes to c
write_decoded(i, self, c, n, checks) ==
    add_assign_size(Stored(IF i \in Streaming THEN mix_current_seed(self) ELSE self, c),
                    n, checks)

\* Hasher::write_u64
write_u64(self, i, checks) ==
    add_assign_size([mix_current_seed(self) EXCEPT !.lo = i, !.hi = Zero64],
                    U64(8), checks)

\* a plausible slip: the size grows by the width of the integer written
write_narrow_by_width(self, i, checks) ==
    add_assign_size([mix_current_seed(self) EXCEPT !.lo = widen_u64(i), !.hi = Zero64],
                    U64(Len(i)), checks)

\* Hasher::write_u8, write_u16, write_u32, write_usize: i as u64, then write_u64
write_narrow(self, i, checks) == write_u64(self, widen_u64(i), checks)

\* Hasher::write_u128
write_u128(self, i, checks) ==
    add_assign_size([mix_current_seed(self) EXCEPT !.lo = as_u64(i),
                                                  !.hi = as_u64(wrapping_shr_64(i))],
                    U64(16), checks)

\* a plausible slip: the size is left out of the final mix
finish_without_size(self) ==
    XorHalves(wymul(xor(self.lo, second(self.secret)), xor(self.hi, self.seed)))

\* the last line of finish, p the (lo, hi) of its first
FinalMix(self, p) ==
    wymix(xor(xor(p[1], first(self.secret)), self.size), xor(p[2], second(self.secret)))

\* Hasher::finish
finish(self) ==
    FinalMix(self, wymul(xor(self.lo, second(self.secret)), xor(self.hi, self.seed)))

---------------------------------------------------------------------------
(* Inputs of the hasher.                                                   *)

MaxWrites == 2

\* the secrets the tests of secret.rs expect of make_secret(0)
TestSecret(r) ==
    IF r = "v4_2"
    THEN << W64(\h39d4, \h3c5c, \h4e3a, \h724b), W64(\h6596, \he147, \h53cc, \ha38b),
            W64(\hc68d, \h954b, \h2b33, \h9353), W64(\h96b4, \ha6e4, \h5c65, \haa55) >>
    ELSE << W64(\h95d4, \h9a95, \h9ca5, \ha395), W64(\hb4a9, \h716a, \hc94d, \ha695),
            W64(\h5635, \hcc63, \h5595, \h6559), W64(\he1e1, \h8e3a, \h9c59, \h1da9) >>

\* Default has the seed 0
HasherSeeds == { U64(1) }

\* a seed whose secret make_secret_legacy finds within 24 candidates
SecretSeeds == { U64(266) }

\* "", "a", "abcdef", "abcdefghijklmnopq"
Chunks == { << >>, << 97 >>, [j \in 1..6 |-> 96 + j], [j \in 1..17 |-> 96 + j] }

U8Values == { << 200 >> }
U16Values == { << 232, 3 >> }
U32Values == { << 1, 2, 3, 4 >> }
U64Values == { U64(1000) }
U128Values == { W64(1, 2, 3, 4) \o W64(5, 6, 7, 8) }
\* a usize of a 32-bit target
UsizeValues == { << 220, 5, 0, 0 >> }

---------------------------------------------------------------------------
(* The state machines.                                                     *)

IdleRng == new(Zero64)

NoCall(h) ==
    [op |-> "none", arg |-> << >>, pre |-> h, ret |-> NoWord, prev_ret |-> NoWord,
     writes |-> 0, total |-> Zero64]

IdleHasher ==
    /\ himpl = "final_v4_2"
    /\ overflow_checks = TRUE
    /\ made = [ctor |-> "default", seed |-> Zero64, secret |-> DefaultSecret("v4_2"),
               secret_seed |-> NoWord]
    /\ hasher = default("v4_2")
    /\ twin = [h |-> hasher, ret |-> NoWord]
    /\ panicked = FALSE
    /\ last = NoCall(default("v4_2"))

\* no generator is seeded from another, no secret is being made, no number is
\* tested for primality, no builder is made
NoSource ==
    [g |-> IdleRng, fails |-> FALSE, made |-> "none", pre |-> IdleRng, post |-> IdleRng]

NotMaking ==
    [r |-> "v4", from |-> Zero64, seed |-> Zero64,
     secret |-> << Zero64, Zero64, Zero64, Zero64 >>, i |-> 0, tries |-> 0, ok |-> FALSE,
     passed |-> << >>, usize |-> Usize64, before |-> Zero64, drawn |-> Zero64]

NoPrimality == [of |-> "primes", n |-> 0, called |-> FALSE, ret |-> FALSE]

\* OnceLock::new()
Uninit == [state |-> "uninit", value |-> << >>, completed |-> 0]

NoEntropy == [draws |-> 0, given |-> << >>]

IdleRest ==
    /\ source = NoSource
    /\ making = NotMaking
    /\ primality = NoPrimality
    /\ SECRET = Uninit
    /\ threads = << >>
    /\ entropy = NoEntropy

InitMix ==
    /\ \E a \in Samples, b \in Samples :
          mx = [first |-> a, second |-> b, mul |-> NoWord, mix |-> NoWord]
    /\ impl = "final_v4_2"
    /\ rng = IdleRng
    /\ cloned = IdleRng
    /\ IdleRest
    /\ IdleHasher

NextMix == CallWymul \/ CallWymix

SpecMix == InitMix /\ [][NextMix]_vars

InitRand ==
    /\ mx = IdleMix
    /\ impl \in Impls
    /\ \E seed \in Samples :
        /\ rng = new(seed)
        /\ cloned = rng
    /\ IdleHasher
    /\ IdleRest

RngRand ==
    /\ Len(rng.out) < MaxDraws
    /\ rng' = Draw(rng)
    /\ UNCHANGED <<mx, svars, bvars, impl, cloned, source, hvars>>

ClonedRand ==
    /\ Len(cloned.out) < MaxDraws
    /\ cloned' = Draw(cloned)
    /\ UNCHANGED <<mx, svars, bvars, impl, rng, source, hvars>>

NextRand == RngRand \/ ClonedRand

SpecRand == InitRand /\ [][NextRand]_vars

\* the hasher a constructor call m returns
Construct(i, m) ==
    IF m.ctor = "new" THEN WyHash_new(m.seed, m.secret_seed, HRevOf(i))
    ELSE IF m.ctor = "new_with_secret" THEN new_with_secret(m.seed, m.secret)
    ELSE IF m.ctor = "new_with_default_secret"
         THEN new_with_default_secret(m.seed, HRevOf(i))
    ELSE default(HRevOf(i))

\* the constructor calls of implementation i.  new(seed, secret_seed) is called
\* in the builds of revision v4, where make_secret tests no candidate for
\* primality.
Constructions(i) ==
    { [ctor |-> "new_with_secret", seed |-> s, secret |-> TestSecret(HRevOf(i)),
       secret_seed |-> NoWord] : s \in HasherSeeds }
    \cup { [ctor |-> "new_with_default_secret", seed |-> s,
            secret |-> DefaultSecret(HRevOf(i)), secret_seed |-> NoWord] :
               s \in HasherSeeds }
    \cup { [ctor |-> "default", seed |-> Zero64, secret |-> DefaultSecret(HRevOf(i)),
            secret_seed |-> NoWord] }
    \cup { [ctor |-> "new", seed |-> s, secret |-> << >>, secret_seed |-> t] :
               s \in IF HRevOf(i) = "v4" THEN HasherSeeds ELSE { },
               t \in SecretSeeds }

InitHash ==
    /\ mx = IdleMix
    /\ impl = "final_v4_2"
    /\ rng = IdleRng
    /\ cloned = IdleRng
    /\ IdleRest
    /\ himpl \in HasherImpls
    /\ overflow_checks = TRUE
    /\ made \in Constructions(himpl)
    /\ hasher = Construct(himpl, made)
    /\ twin = [h |-> hasher, ret |-> NoWord]
    /\ panicked = FALSE
    /\ last = NoCall(hasher)

\* a write call op(arg) that returned or panicked with r
Written(op, arg, r) ==
    /\ hasher' = r.h
    /\ panicked' = r.panic
    /\ last' = [op |-> op, arg |-> arg, pre |-> hasher, ret |-> NoWord,
                prev_ret |-> NoWord, writes |-> last.writes + 1,
                total |-> IF op = "write" THEN wrapping_add(last.total, U64(Len(arg)))
                          ELSE last.total]
    /\ UNCHANGED <<mx, svars, bvars, gvars, himpl, overflow_checks, made, twin>>

CanWrite == ~panicked /\ last.writes < MaxWrites

Write ==
    /\ CanWrite
    /\ \E bytes \in Chunks :
        \E r \in { write(himpl, hasher, bytes, overflow_checks) } :
            Written("write", bytes, r)

WriteU8 ==
    /\ CanWrite /\ himpl \in Streaming
    /\ \E i \in U8Values :
        \E r \in { write_narrow(hasher, i, overflow_checks) } :
            Written("write_u8", i, r)

WriteU16 ==
    /\ CanWrite /\ himpl \in Streaming
    /\ \E i \in U16Values :
        \E r \in { write_narrow(hasher, i, overflow_checks) } :
            Written("write_u16", i, r)

WriteU32 ==
    /\ CanWrite /\ himpl \in Streaming
    /\ \E i \in U32Values :
        \E r \in { write_narrow(hasher, i, overflow_checks) } :
            Written("write_u32", i, r)

WriteU64 ==
    /\ CanWrite /\ himpl \in Streaming
    /\ \E i \in U64Values :
        \E r \in { write_u64(hasher, i, overflow_checks) } :
            Written("write_u64", i, r)

WriteU128 ==
    /\ CanWrite /\ himpl \in Streaming
    /\ \E i \in U128Values :
        \E r \in { write_u128(hasher, i, overflow_checks) } :
            Written("write_u128", i, r)

WriteUsize ==
    /\ CanWrite /\ himpl \in Streaming
    /\ \E i \in UsizeValues :
        \E r \in { write_narrow(hasher, i, overflow_checks) } :
            Written("write_usize", i, r)

\* a plausible slip: a finish that folds the pending chunk into the seed
FinishFolding ==
    /\ ~panicked
    /\ last' = [last EXCEPT !.op = "finish", !.arg = << >>, !.pre = hasher,
                            !.ret = finish(hasher),
                            !.prev_ret = IF last.op = "finish" THEN last.ret ELSE NoWord]
    /\ hasher' = mix_current_seed(hasher)
    /\ UNCHANGED <<mx, svars, bvars, gvars, himpl, overflow_checks, made, twin, panicked>>

\* Hasher::finish(&self): the hasher is read, not written
Finish ==
    /\ ~panicked
    /\ last' = [last EXCEPT !.op = "finish", !.arg = << >>, !.pre = hasher,
                            !.ret = finish(hasher),
                            !.prev_ret = IF last.op = "finish" THEN last.ret ELSE NoWord]
    /\ UNCHANGED <<mx, svars, bvars, gvars, himpl, overflow_checks, made, hasher, twin, panicked>>

NextHash ==
    \/ Write \/ WriteU8 \/ WriteU16 \/ WriteU32 \/ WriteU64 \/ WriteU128 \/ WriteUsize
    \/ Finish

SpecHash == InitHash /\ [][NextHash]_vars

---------------------------------------------------------------------------
(* Two hashers fed two sequences of writes that differ in their first     *)
(* chunk and agree in every later one.                                     *)

MaxLater == 2

\* "a", "b", one zero byte
PairChunks == { << 97 >>, << 98 >>, << 0 >> }
PairWords == { Zero64, U64(1000), U64(1500) }

InitPair ==
    /\ mx = IdleMix
    /\ impl = "final_v4_2"
    /\ rng = IdleRng
    /\ cloned = IdleRng
    /\ IdleRest
    /\ himpl \in Streaming
    /\ overflow_checks = TRUE
    /\ made = [ctor |-> "default", seed |-> Zero64,
               secret |-> DefaultSecret(HRevOf(himpl)), secret_seed |-> NoWord]
    /\ hasher = default(HRevOf(himpl))
    /\ twin = [h |-> hasher, ret |-> NoWord]
    /\ panicked = FALSE
    /\ last = NoCall(hasher)

\* the call op(arg) on the hasher self
Call(op, self, arg) ==
    IF op = "write" THEN write(himpl, self, arg, overflow_checks)
    ELSE write_u64(self, arg, overflow_checks)

\* the call op(arg[1]) on hasher and op(arg[2]) on twin
PairCall(op, arg) ==
    \E r \in { [k \in {1, 2} |-> Call(op, IF k = 1 THEN hasher ELSE twin.h, arg[k])] } :
        /\ hasher' = r[1].h
        /\ twin' = [h |-> r[2].h, ret |-> NoWord, pre |-> twin.h]
        /\ panicked' = (r[1].panic \/ r[2].panic)
        /\ last' = [op |-> op, arg |-> arg, pre |-> hasher, ret |-> NoWord,
                    prev_ret |-> NoWord, writes |-> last.writes + 1,
                    total |-> last.total]
        /\ UNCHANGED <<mx, svars, bvars, gvars, himpl, overflow_checks, made>>

\* one write on each hasher: the first writes differ, every later one is the
\* same on both
PairWrite ==
    /\ last.writes <= MaxLater
    /\ \E op \in {"write", "write_u64"} :
        \E a, b \in IF op = "write" THEN PairChunks ELSE PairWords :
            /\ (a # b) <=> (last.writes = 0)
            /\ PairCall(op, <<a, b>>)

PairFinish ==
    /\ last.op # "finish"
    /\ last' = [last EXCEPT !.op = "finish", !.arg = << >>, !.pre = hasher,
                            !.ret = finish(hasher)]
    /\ twin' = [twin EXCEPT !.ret = finish(twin.h)]
    /\ UNCHANGED <<mx, svars, bvars, gvars, himpl, overflow_checks, made, hasher, panicked>>

NextPair == PairWrite \/ PairFinish

SpecPair == InitPair /\ [][NextPair]_vars

---------------------------------------------------------------------------
(* Two hashers made by the same constructor call and given the same calls, *)
(* the second one a call behind the first.                                 *)

InitTwin ==
    /\ mx = IdleMix
    /\ impl = "final_v4_2"
    /\ rng = IdleRng
    /\ cloned = IdleRng
    /\ IdleRest
    /\ himpl \in HasherImpls
    /\ overflow_checks = TRUE
    /\ made \in Constructions(himpl)
    /\ hasher = Construct(himpl, made)
    /\ twin = [h |-> Construct(himpl, made), ret |-> NoWord, behind |-> FALSE]
    /\ panicked = FALSE
    /\ last = NoCall(hasher)

\* the write calls of implementation i, <<operation, argument>>
TwinCalls(i) ==
    { <<"write", bytes>> : bytes \in Chunks }
    \cup (IF i \in Streaming
          THEN { <<"write_u16", x>> : x \in U16Values }
               \cup { <<"write_u64", x>> : x \in U64Values }
               \cup { <<"write_u128", x>> : x \in U128Values }
          ELSE { })

\* the write call op(arg) on the hasher self
Apply(op, self, arg) ==
    IF op = "write" THEN write(himpl, self, arg, overflow_checks)
    ELSE IF op = "write_u64" THEN write_u64(self, arg, overflow_checks)
    ELSE IF op = "write_u128" THEN write_u128(self, arg, overflow_checks)
    ELSE write_narrow(self, arg, overflow_checks)

\* a write on the first hasher
TwinLead ==
    /\ ~panicked /\ ~twin.behind
    /\ last.writes < MaxWrites
    /\ \E c \in TwinCalls(himpl) :
        \E r \in { Apply(c[1], hasher, c[2]) } :
            /\ hasher' = r.h
            /\ panicked' = r.panic
            /\ last' = [last EXCEPT !.op = c[1], !.arg = c[2], !.pre = hasher,
                                    !.ret = NoWord, !.writes = last.writes + 1]
    /\ twin' = [twin EXCEPT !.behind = TRUE]
    /\ UNCHANGED <<mx, svars, bvars, gvars, himpl, overflow_checks, made>>

\* a finish on the first hasher
TwinLeadFinish ==
    /\ ~panicked /\ ~twin.behind
    /\ last.op # "finish"
    /\ last' = [last EXCEPT !.op = "finish", !.arg = << >>, !.pre = hasher,
                            !.ret = finish(hasher)]
    /\ twin' = [twin EXCEPT !.behind = TRUE]
    /\ UNCHANGED <<mx, svars, bvars, gvars, himpl, overflow_checks, made, hasher, panicked>>

\* the same write on the second hasher
TwinFollow ==
    /\ twin.behind
    /\ last.op # "finish"
    /\ \E r \in { Apply(last.op, twin.h, last.arg) } :
        /\ twin' = [h |-> r.h, ret |-> NoWord, behind |-> FALSE]
        /\ panicked' = (panicked \/ r.panic)
    /\ UNCHANGED <<mx, svars, bvars, gvars, himpl, overflow_checks, made, hasher, last>>

\* the same finish on the second hasher
TwinFollowFinish ==
    /\ twin.behind
    /\ last.op = "finish"
    /\ twin' = [twin EXCEPT !.ret = finish(twin.h), !.behind = FALSE]
    /\ UNCHANGED <<mx, svars, bvars, gvars, himpl, overflow_checks, made, hasher, panicked,
                   last>>

NextTwin == TwinLead \/ TwinLeadFinish \/ TwinFollow \/ TwinFollowFinish

SpecTwin == InitTwin /\ [][NextTwin]_vars

---------------------------------------------------------------------------
(* make_secret, one candidate at a time.                                   *)

MaxCandidates == 25

\* the candidates a call of revision v4, whose candidates are not tested for
\* primality, is followed for
MaxLegacyCandidates == 110

\* the calls make_secret(seed) of revision r, <<r, seed>>: seeds of revision v4
\* whose secret is found within 14 to 24 candidates, and a seed of revision v4.2
\* whose first two constants are found within 3
MakeSecretCalls ==
    { <<"v4", 1638>>, <<"v4", 1567>>, <<"v4", 1514>>, <<"v4", 1840>>, <<"v4", 266>>,
      <<"v4", 3>>, <<"v4_2", 6398>> }

InitSecret ==
    /\ mx = IdleMix
    /\ impl = "final_v4_2"
    /\ rng = IdleRng
    /\ cloned = IdleRng
    /\ source = NoSource
    /\ \E c \in MakeSecretCalls :
          making = [NotMaking EXCEPT !.r = c[1], !.from = U64(c[2]), !.seed = U64(c[2])]
    /\ primality = NoPrimality
    /\ SECRET = Uninit
    /\ threads = << >>
    /\ entropy = NoEntropy
    /\ IdleHasher

\* make_secret after the candidate c = <<secret[i], seed>> is drawn: ok, and
\* i += 1 when it is
Tried(c, k) ==
    making' = [making EXCEPT !.seed = c[2],
                             !.before = making.seed,
                             !.drawn = c[1],
                             !.secret[making.i + 1] = c[1],
                             !.ok = k,
                             !.passed = IF k THEN Append(@, c[1]) ELSE @,
                             !.i = IF k THEN @ + 1 ELSE @,
                             !.tries = @ + 1]

\* one round of while !ok
TryCandidate ==
    /\ making.i < 4
    /\ making.tries < (IF making.r = "v4" THEN MaxLegacyCandidates ELSE MaxCandidates)
    /\ \E c \in { FillLanes(making.r, making.usize, cleared(making.secret[making.i + 1]),
                             making.seed, 0) } :
        \E k \in { ok(making.r, [making.secret EXCEPT ![making.i + 1] = c[1]], making.i) } :
            Tried(c, k)
    /\ UNCHANGED <<mx, gvars, hvars, primality, bvars>>

NextSecretStep == TryCandidate

SpecSecret == InitSecret /\ [][NextSecretStep]_vars

\* make_secret_legacy run to its end: the loop is sequential code in one
\* thread, and a round that can run does run
InitLive == InitSecret /\ making.r = "v4"

NextLive == TryCandidate

\* while i < secret.len(), within the candidates the call is followed for: the
\* condition under which TryCandidate can run
Looping == making.i < 4 /\ making.tries < MaxLegacyCandidates

\* weak fairness of TryCandidate, with Looping for ENABLED <<TryCandidate>>_vars
FairLoop == []<>(~Looping) \/ []<><<TryCandidate>>_vars

SpecLive == InitLive /\ [][NextLive]_vars /\ FairLoop

---------------------------------------------------------------------------
(* make_secret_legacy on a 64-bit and on a 32-bit target: value as usize    *)
(* keeps the low 32 bits of the draw on the second.                        *)

\* the calls make_secret_legacy(seed) on a target whose usize has w bytes,
\* <<seed, w>>
TargetCalls == {1638, 1567, 1514, 1840, 266} \X {Usize64, Usize32}

InitTarget ==
    /\ mx = IdleMix
    /\ impl = "final_v4_2"
    /\ rng = IdleRng
    /\ cloned = IdleRng
    /\ source = NoSource
    /\ \E c \in TargetCalls :
          making = [NotMaking EXCEPT !.r = "v4", !.from = U64(c[1]), !.seed = U64(c[1]),
                                     !.usize = c[2]]
    /\ primality = NoPrimality
    /\ SECRET = Uninit
    /\ threads = << >>
    /\ entropy = NoEntropy
    /\ IdleHasher

NextTarget == TryCandidate

SpecTarget == InitTarget /\ [][NextTarget]_vars

---------------------------------------------------------------------------
(* The primality test, applied to small numbers and to the numbers of its  *)
(* tests.                                                                  *)

MaxPrime == 60

\* is_prime of hasher/primes.rs and is_prime of hasher/secret.rs
PrimeTests == {"primes", "secret"}

\* 0 .. MaxPrime, numbers of tests::resolves_prime_numbers_correctly, 2047 and
\* the numbers around it, and products of two primes
PrimeInputs == (0..MaxPrime) \cup {1723, 3191, 10001, 2045, 2047, 2049, 3277, 1373653}

InitPrime ==
    /\ mx = IdleMix
    /\ impl = "final_v4_2"
    /\ rng = IdleRng
    /\ cloned = IdleRng
    /\ source = NoSource
    /\ making = NotMaking
    /\ primality \in [of : PrimeTests, n : PrimeInputs, called : {FALSE}, ret : {FALSE}]
    /\ SECRET = Uninit
    /\ threads = << >>
    /\ entropy = NoEntropy
    /\ IdleHasher

CallIsPrime ==
    /\ ~primality.called
    /\ primality' =
          [primality EXCEPT !.called = TRUE,
                            !.ret = IF primality.of = "primes"
                                    THEN is_prime(U64(primality.n))
                                    ELSE secret_is_prime(U64(primality.n))]
    /\ UNCHANGED <<mx, gvars, hvars, making, bvars>>

NextPrime == CallIsPrime

SpecPrime == InitPrime /\ [][NextPrime]_vars

---------------------------------------------------------------------------
(* The arithmetic of the primality test, applied to small numbers and to   *)
(* numbers next to 2^63 and 2^64.                                          *)

\* the numbers a of mul_mod(a, b, m) and pow_mod(a, b, m)
ModNumbers ==
    { U64(0), U64(1), U64(2), U64(7), W64(\h8000, \h0000, \h0000, \h0000),
      W64(\hffff, \hffff, \hffff, \hfffe), MaxU64 }

\* the numbers b of mul_mod(a, b, m)
ModFactors == { U64(0), U64(1), U64(2), U64(3), MaxU64 }

\* the numbers b of pow_mod(a, b, m)
ModExponents == { U64(0), U64(1), U64(2), U64(3), U64(5) }

\* the moduli
Moduli ==
    { U64(1), U64(3), U64(7), W64(\h8000, \h0000, \h0000, \h0001), MaxU64 }

\* the calls: those of every number, factor or exponent and modulus, and
\* 3 ^ (2^64 - 1) modulo the prime 2^64 - 59
ModCalls ==
    ({"mul_mod"} \X ModNumbers \X ModFactors \X Moduli)
        \cup ({"pow_mod"} \X ModNumbers \X ModExponents \X Moduli)
        \cup { << "pow_mod", U64(3), MaxU64, W64(\hffff, \hffff, \hffff, \hffc5) >> }

InitMod ==
    /\ mx = IdleMix
    /\ impl = "final_v4_2"
    /\ rng = IdleRng
    /\ cloned = IdleRng
    /\ source = NoSource
    /\ making = NotMaking
    /\ \E c \in ModCalls :
          primality = [of |-> c[1], a |-> c[2], b |-> c[3], m |-> c[4],
                       called |-> FALSE, ret |-> Zero64]
    /\ SECRET = Uninit
    /\ threads = << >>
    /\ entropy = NoEntropy
    /\ IdleHasher

CallMulMod ==
    /\ ~primality.called
    /\ primality.of = "mul_mod"
    /\ primality' = [primality EXCEPT !.called = TRUE,
                                      !.ret = mul_mod(primality.a, primality.b, primality.m)]
    /\ UNCHANGED <<mx, gvars, hvars, making, bvars>>

CallPowMod ==
    /\ ~primality.called
    /\ primality.of = "pow_mod"
    /\ primality' = [primality EXCEPT !.called = TRUE,
                                      !.ret = pow_mod(primality.a, primality.b, primality.m)]
    /\ UNCHANGED <<mx, gvars, hvars, making, bvars>>

NextMod == CallMulMod \/ CallPowMod

SpecMod == InitMod /\ [][NextMod]_vars

---------------------------------------------------------------------------
(* sprp, applied to odd numbers from 5 on.                                 *)

\* the odd numbers 5 .. MaxPrime, numbers n with n - 1 = d * 2^s for s = 5, 6,
\* 8, 8, 11, 12, 14, 15 and 16, and 2^32 + 1 and 2^56 + 1
SprpNumbers ==
    { U64(n) : n \in { k \in 5..MaxPrime : k % 2 = 1 }
                      \cup {97, 193, 257, 769, 2049, 4097, 16385, 32769, 65537} }
        \cup { W64(\h0000, \h0001, \h0000, \h0001), W64(\h0100, \h0000, \h0000, \h0001) }

\* bases of is_prime
SprpBases == {2, 3, 37}

InitSprp ==
    /\ mx = IdleMix
    /\ impl = "final_v4_2"
    /\ rng = IdleRng
    /\ cloned = IdleRng
    /\ source = NoSource
    /\ making = NotMaking
    /\ \E n \in SprpNumbers, a \in SprpBases :
          primality = [of |-> "sprp", n |-> n, a |-> a, called |-> FALSE,
                       d |-> Zero64, s |-> 0, ret |-> FALSE]
    /\ SECRET = Uninit
    /\ threads = << >>
    /\ entropy = NoEntropy
    /\ IdleHasher

\* sprp(n, a), with the d and s it has after its shifts
CallSprp ==
    /\ ~primality.called
    /\ \E ds \in { StripZeros(primality.n) } :
          primality' = [primality EXCEPT !.called = TRUE,
                                         !.d = ds[1],
                                         !.s = ds[2],
                                         !.ret = ProbableFrom(primality.n, primality.a, ds)]
    /\ UNCHANGED <<mx, gvars, hvars, making, bvars>>

NextSprp == CallSprp

SpecSprp == InitSprp /\ [][NextSprp]_vars

---------------------------------------------------------------------------
(* RandomWyHashState: the builders threads make, the static SECRET and the *)
(* entropy source.                                                         *)

MaxThreads == 2

Threads == 1..MaxThreads

\* the values the tests' seeds give the entropy source to hand out
EntropyValues == { U64(3), U64(6) }

\* make_secret(seed) of the seeds 0, 3, 6 and 42, as
\* tests::generate_expected_secrets lists it
expected_results(r, seed) ==
    IF seed = U64(3)
    THEN IF r = "v4_2"
         THEN << W64(\ha374, \h3ca3, \h5956, \hac59), W64(\h65b1, \hb8e8, \h558b, \h72c5),
                 W64(\h78ca, \hd4b8, \hc98e, \ha535), W64(\h561d, \h5996, \h5a4b, \haa27) >>
         ELSE << W64(\ha9c6, \h4d71, \ha6e2, \ha3c9), W64(\h5cac, \h2759, \h1d9a, \hd1e1),
                 W64(\h3574, \hd14e, \hb459, \h87a5), W64(\hd8b8, \h5963, \h273c, \h4d1d) >>
    ELSE IF seed = U64(6)
    THEN IF r = "v4_2"
         THEN << W64(\h993c, \h394d, \h599a, \h9a2b), W64(\h535c, \h4d3c, \h9ae1, \ha91d),
                 W64(\h72b2, \h356a, \h3cc6, \hf0a5), W64(\h5a6c, \h8e1b, \h6c2e, \h4da9) >>
         ELSE << W64(\h4dc3, \hd12e, \h36b1, \h272d), W64(\haa5a, \h8b35, \hb478, \h1d1b),
                 W64(\hcc36, \h354b, \he4e2, \h4e4b), W64(\h3c55, \h4da3, \h4d74, \h8787) >>
    ELSE IF seed = U64(42)
    THEN IF r = "v4_2"
         THEN << W64(\h8b4b, \he21b, \h934d, \hc6a3), W64(\h9a0f, \h72f0, \he81b, \h6969),
                 W64(\h9974, \h6a47, \hf066, \h331b), W64(\hccb8, \hb85a, \h99aa, \ha9b1) >>
         ELSE << W64(\h4d78, \h1d72, \h9a99, \h8b95), W64(\ha52e, \h8ec6, \h6a3c, \h5655),
                 W64(\hb4e8, \h9c65, \h3627, \h2da3), W64(\h6aac, \haaac, \h8ee2, \hc393) >>
    ELSE TestSecret(r)

\* static SECRET of a build without fully_randomised_wyhash: there is none
NoStatic == [state |-> "absent", value |-> << >>, completed |-> 0]

NoBuilder == << >>

NotCalled == [pc |-> "idle", call |-> "none", secret |-> << >>, ret |-> NoBuilder,
              got |-> << >>, failed |-> 0]

InitBuilder ==
    /\ mx = IdleMix
    /\ impl = "final_v4_2"
    /\ rng = IdleRng
    /\ cloned = IdleRng
    /\ source = NoSource
    /\ making = NotMaking
    /\ primality = NoPrimality
    /\ SECRET \in { Uninit, NoStatic }
    /\ threads = [t \in Threads |-> NotCalled]
    /\ entropy = NoEntropy
    /\ himpl \in HasherImpls
    /\ overflow_checks = TRUE
    /\ made = [ctor |-> "default", seed |-> Zero64, secret |-> DefaultSecret("v4_2"),
               secret_seed |-> NoWord]
    /\ hasher = default("v4_2")
    /\ twin = [h |-> hasher, ret |-> NoWord]
    /\ panicked = FALSE
    /\ last = NoCall(default("v4_2"))

\* get_random_u64() returns v
Given(v) == entropy' = [draws |-> entropy.draws + 1, given |-> Append(entropy.given, v)]

\* get_random_u64() panics: "Failed to source entropy for WyHash randomised state"
Refused == entropy' = [entropy EXCEPT !.draws = @ + 1]

\* OnceLock::get_or_init runs its closure in the calling thread, which has
\* found the cell running no closure in any other
MayInitialize_racing(cell) == cell.state # "init"

MayInitialize(cell) == cell.state = "uninit"

\* make_secret(get_random_u64())
gen_new_secret(i, v) == expected_results(HRevOf(i), v)

\* RandomWyHashState::new() up to its first statement: the secret is the
\* default one in a build without fully_randomised_wyhash
New(t) ==
    /\ threads[t].pc = "idle"
    /\ threads' =
          [threads EXCEPT ![t] =
              IF SECRET.state = "absent"
              THEN [@ EXCEPT !.call = "new", !.pc = "new_with_secret",
                             !.secret = DefaultSecret(HRevOf(himpl))]
              ELSE [@ EXCEPT !.call = "new", !.pc = "get_or_init"]]
    /\ UNCHANGED <<mx, gvars, hvars, svars, SECRET, entropy>>

\* RandomWyHashState::new_with_secret(secret) is called
NewWithSecret(t) ==
    /\ threads[t].pc = "idle"
    /\ threads' = [threads EXCEPT ![t] =
                      [@ EXCEPT !.call = "new_with_secret", !.pc = "new_with_secret",
                                !.secret = TestSecret(HRevOf(himpl))]]
    /\ UNCHANGED <<mx, gvars, hvars, svars, SECRET, entropy>>

\* SECRET.get_or_init(gen_new_secret).clone() of an initialised cell
GetSecret(t) ==
    /\ threads[t].pc = "get_or_init"
    /\ SECRET.state = "init"
    /\ threads' = [threads EXCEPT ![t] =
                      [@ EXCEPT !.pc = "new_with_secret", !.secret = SECRET.value]]
    /\ UNCHANGED <<mx, gvars, hvars, svars, SECRET, entropy>>

\* get_or_init of a cell not initialised: the thread starts the closure, or
\* waits while another runs it
StartClosure(t) ==
    /\ threads[t].pc = "get_or_init"
    /\ MayInitialize(SECRET)
    /\ SECRET' = [SECRET EXCEPT !.state = "running"]
    /\ threads' = [threads EXCEPT ![t].pc = "gen_new_secret"]
    /\ UNCHANGED <<mx, gvars, hvars, svars, entropy>>

\* gen_new_secret returns, the cell is set, and the thread clones its value
FinishClosure(t) ==
    /\ threads[t].pc = "gen_new_secret"
    /\ \E v \in EntropyValues :
        /\ Given(v)
        /\ SECRET' = [state |-> "init", value |-> gen_new_secret(himpl, v),
                      completed |-> SECRET.completed + 1]
        /\ threads' = [threads EXCEPT ![t] =
                          [@ EXCEPT !.pc = "new_with_secret",
                                    !.got = Append(@, v),
                                    !.secret = gen_new_secret(himpl, v)]]
    /\ UNCHANGED <<mx, gvars, hvars, svars>>

\* the panic of get_random_u64 inside the closure, made up for with the
\* default secret
PanicInClosure_defaulting(t) ==
    /\ threads[t].pc = "gen_new_secret"
    /\ Refused
    /\ SECRET' = [SECRET EXCEPT !.state = "init", !.value = DefaultSecret(HRevOf(himpl))]
    /\ threads' = [threads EXCEPT ![t] = [@ EXCEPT !.pc = "panicked", !.failed = @ + 1]]
    /\ UNCHANGED <<mx, gvars, hvars, svars>>

\* get_random_u64 panics inside the closure: the panic is propagated to the
\* caller of get_or_init, and the cell remains uninitialised
PanicInClosure(t) ==
    /\ threads[t].pc = "gen_new_secret"
    /\ Refused
    /\ SECRET' = [SECRET EXCEPT !.state = "uninit"]
    /\ threads' = [threads EXCEPT ![t] = [@ EXCEPT !.pc = "panicked", !.failed = @ + 1]]
    /\ UNCHANGED <<mx, gvars, hvars, svars>>

\* Self { state: get_random_u64(), secret }
Built(t) ==
    /\ threads[t].pc = "new_with_secret"
    /\ \E v \in EntropyValues :
        /\ Given(v)
        /\ threads' = [threads EXCEPT ![t] =
                          [@ EXCEPT !.pc = "returned",
                                    !.got = Append(@, v),
                                    !.ret = [state |-> v, secret |-> threads[t].secret]]]
    /\ UNCHANGED <<mx, gvars, hvars, svars, SECRET>>

\* get_random_u64 panics in new_with_secret
PanicInBuild(t) ==
    /\ threads[t].pc = "new_with_secret"
    /\ Refused
    /\ threads' = [threads EXCEPT ![t] = [@ EXCEPT !.pc = "panicked", !.failed = @ + 1]]
    /\ UNCHANGED <<mx, gvars, hvars, svars, SECRET>>

NextBuilder ==
    \E t \in Threads :
        \/ New(t)
        \/ NewWithSecret(t)
        \/ GetSecret(t)
        \/ StartClosure(t)
        \/ FinishClosure(t)
        \/ PanicInClosure(t)
        \/ Built(t)
        \/ PanicInBuild(t)

SpecBuilder == InitBuilder /\ [][NextBuilder]_vars

---------------------------------------------------------------------------
(* impl SeedableRng: a generator seeded from another.                      *)

\* the generators that define from_rng and try_from_rng
SeedableImpls == {"final_v4_2", "legacy_final_v4"}

\* a plausible slip: the new generator takes over the state of the source
from_rng_of_state(g) ==
    LET d == Draw(g)
    IN  << new(d.state), d >>

\* SeedableRng::from_rng(rng) = Self::new(rng.next_u64()): (the new
\* generator, the source after the call)
from_rng(g) ==
    LET d == Draw(g)
    IN  << new(d.out[Len(d.out)]), d >>

InitSeed ==
    /\ mx = IdleMix
    /\ impl \in SeedableImpls
    /\ rng = IdleRng
    /\ cloned = IdleRng
    /\ \E seed \in Samples : \E f \in BOOLEAN :
          source = [g |-> new(seed), fails |-> f, made |-> "none", pre |-> new(seed),
                    post |-> new(seed)]
    /\ making = NotMaking
    /\ primality = NoPrimality
    /\ SECRET = Uninit
    /\ threads = << >>
    /\ entropy = NoEntropy
    /\ IdleHasher

\* source.next_u64(), before or after the new generator is seeded from it
SourceRand ==
    /\ ~source.fails
    /\ Len(source.g.out) < MaxDraws
    /\ source' = [source EXCEPT !.g = Draw(source.g)]
    /\ UNCHANGED <<mx, impl, rng, cloned, hvars, svars, bvars>>

\* the new generator and the source after from_rng(&mut source)
Seeded(how, r) ==
    /\ rng' = r[1]
    /\ source' = [source EXCEPT !.g = r[2], !.made = how, !.pre = source.g, !.post = r[2]]

\* let rng = WyRand::from_rng(&mut source)
FromRng ==
    /\ source.made = "none"
    /\ ~source.fails
    /\ Len(source.g.out) < MaxDraws
    /\ \E r \in { from_rng(source.g) } : Seeded("from_rng", r)
    /\ UNCHANGED <<mx, impl, cloned, hvars, svars, bvars>>

\* WyRand::try_from_rng(&mut source) of a source whose try_next_u64 returns
\* Ok as next_u64 does
TryFromRng ==
    /\ source.made = "none"
    /\ ~source.fails
    /\ Len(source.g.out) < MaxDraws
    /\ \E r \in { from_rng(source.g) } : Seeded("try_from_rng", r)
    /\ UNCHANGED <<mx, impl, cloned, hvars, svars, bvars>>

\* WyRand::try_from_rng(&mut source) of a source whose try_next_u64 returns
\* Err: the ? returns it
TryFromRngErr ==
    /\ source.made = "none"
    /\ source.fails
    /\ source' = [source EXCEPT !.made = "Err"]
    /\ UNCHANGED <<mx, impl, rng, cloned, hvars, svars, bvars>>

\* rng.next_u64() on the new generator
SeededRand ==
    /\ source.made \in {"from_rng", "try_from_rng"}
    /\ Len(rng.out) < MaxDraws
    /\ rng' = Draw(rng)
    /\ UNCHANGED <<mx, impl, cloned, source, hvars, svars, bvars>>

NextSeed == SourceRand \/ FromRng \/ TryFromRng \/ TryFromRngErr \/ SeededRand

SpecSeed == InitSeed /\ [][NextSeed]_vars

---------------------------------------------------------------------------
(* consume_bytes, one chunk of every length: what it reads and returns.    *)

MaxChunk == 50

\* every length up to MaxChunk, and lengths around two and three super-blocks
DecodeLengths == (0..MaxChunk) \cup {95, 96, 97, 144, 145}

\* a chunk of n bytes, no two alike
ChunkOf(n) == [j \in 1..n |-> (37 * j + 11) % 256]

\* a reader fn applied to &bytes[start..], of which it indexes bits[k], k in idx
Read8(start) == [fn |-> "read_8_bytes", start |-> start, idx |-> 0..7]

Read4(start) == [fn |-> "read_4_bytes", start |-> start, idx |-> 0..3]

\* a plausible slip: the byte in the middle is not read
Read3_ends(length) ==
    [fn |-> "read_upto_3_bytes", start |-> 0, idx |-> {0, length - 1}]

Read3(length) ==
    [fn |-> "read_upto_3_bytes", start |-> 0, idx |-> {0, length \div 2, length - 1}]

\* the 48-byte rounds of consume_bytes: index and start as they leave the
\* loop, and the reads made
RECURSIVE SuperBlockSteps(_, _, _, _)
SuperBlockSteps(i, index, start, reads) ==
    IF is_over_48_bytes(i, index)
    THEN SuperBlockSteps(i, index - 48, start + 48,
            reads \o << Read8(start), Read8(start + 8), Read8(start + 16),
                        Read8(start + 24), Read8(start + 32), Read8(start + 40) >>)
    ELSE [index |-> index, start |-> start, reads |-> reads]

\* the 16-byte rounds of consume_bytes
RECURSIVE BlockSteps(_, _, _)
BlockSteps(index, start, reads) ==
    IF index > 16
    THEN BlockSteps(index - 16, start + 16, reads \o << Read8(start), Read8(start + 8) >>)
    ELSE [index |-> index, start |-> start, reads |-> reads]

\* the two loops of consume_bytes, and the reads of lo and hi after them
BulkSteps(i, length) ==
    LET s == IF is_over_48_bytes(i, length) THEN SuperBlockSteps(i, length, 0, << >>)
             ELSE [index |-> length, start |-> 0, reads |-> << >>]
        b == BlockSteps(s.index, s.start, s.reads)
    IN  [after48 |-> << s.index, s.start >>, after16 |-> << b.index, b.start >>,
         reads |-> b.reads \o << Read8(length - 16), Read8(length - 8) >>]

\* consume_bytes of a chunk of length bytes: the slices it takes, the bytes
\* it indexes, and its loop variables
consume_bytes_steps(i, length) ==
    IF length = 0
    THEN [after48 |-> << 0, 0 >>, after16 |-> << 0, 0 >>, reads |-> << >>]
    ELSE IF length <= 3
    THEN [after48 |-> << length, 0 >>, after16 |-> << length, 0 >>,
          reads |-> << Read3(length) >>]
    ELSE IF length <= 16
    THEN [after48 |-> << length, 0 >>, after16 |-> << length, 0 >>,
          reads |-> << Read4(0), Read4((length \div 8) * 4), Read4(length - 4),
                       Read4(length - 4 - (length \div 8) * 4) >>]
    ELSE BulkSteps(i, length)

\* &bytes[start..] and bits[k] of a slice of length bytes do not panic, and
\* neither does index -= 48 or index -= 16 on a usize
Indexable(length, steps) ==
    /\ \A k \in 1..Len(steps.reads) :
        /\ steps.reads[k].start \in 0..length
        /\ \A j \in steps.reads[k].idx : steps.reads[k].start + j \in 0..(length - 1)
    /\ steps.after48[1] >= 0
    /\ steps.after16[1] >= 0

InitDecode ==
    /\ mx = IdleMix
    /\ impl = "final_v4_2"
    /\ rng = IdleRng
    /\ cloned = IdleRng
    /\ IdleRest
    /\ himpl \in HasherImpls
    /\ overflow_checks = TRUE
    /\ made = [ctor |-> "new_with_default_secret", seed |-> U64(1),
               secret |-> DefaultSecret(HRevOf(himpl)), secret_seed |-> NoWord]
    /\ \E h \in { Construct(himpl, made) } :
          hasher \in { h, write(himpl, h, << 97 >>, overflow_checks).h }
    /\ twin = [h |-> hasher, ret |-> NoWord]
    /\ panicked = FALSE
    /\ last = NoCall(hasher)

\* hasher.write(bytes) returned or panicked with r, having gone through steps
Decoded(bytes, steps, r) ==
    /\ hasher' = r.h
    /\ panicked' = r.panic
    /\ last' = [op |-> "write", arg |-> bytes, pre |-> hasher, ret |-> NoWord,
                prev_ret |-> NoWord, writes |-> last.writes + 1,
                total |-> wrapping_add(last.total, U64(Len(bytes))), steps |-> steps]
    /\ UNCHANGED <<mx, svars, bvars, gvars, himpl, overflow_checks, made, twin>>

\* hasher.write(bytes): an index out of the chunk panics
DecodeWrite ==
    /\ last.op = "none"
    /\ \E n \in DecodeLengths :
        \E steps \in { consume_bytes_steps(himpl, n) } :
            IF Indexable(n, steps)
            THEN \E r \in { write(himpl, hasher, ChunkOf(n), overflow_checks) } :
                    Decoded(ChunkOf(n), steps, r)
            ELSE Decoded(ChunkOf(n), steps, [h |-> hasher, panic |-> TRUE])

NextDecode == DecodeWrite

SpecDecode == InitDecode /\ [][NextDecode]_vars

---------------------------------------------------------------------------
(* Writes of slices long enough to carry the byte counter past 2^64 - 1.   *)

MaxLongWrites == 5

\* isize::MAX, the most bytes a slice holds
LongLengths == { W64(\h7fff, \hffff, \hffff, \hffff) }

\* what consume_bytes decodes such a slice to depends on its bytes: any lo,
\* hi and seed, of which these are examples
LongDecoded == { << U64(1), U64(2), U64(3) >>, << MaxU64, Zero64, U64(5) >> }

SizeChunks == { << >>, << 97 >> }

InitSize ==
    /\ mx = IdleMix
    /\ impl = "final_v4_2"
    /\ rng = IdleRng
    /\ cloned = IdleRng
    /\ IdleRest
    /\ himpl \in HasherImpls
    /\ overflow_checks \in BOOLEAN
    /\ made = [ctor |-> "default", seed |-> Zero64,
               secret |-> DefaultSecret(HRevOf(himpl)), secret_seed |-> NoWord]
    /\ hasher = default(HRevOf(himpl))
    /\ twin = [h |-> hasher, ret |-> NoWord]
    /\ panicked = FALSE
    /\ last = NoCall(hasher)

SizeWrite ==
    /\ ~panicked
    /\ last.writes < MaxLongWrites
    /\ \E bytes \in SizeChunks :
        \E r \in { write(himpl, hasher, bytes, overflow_checks) } :
            Written("write", bytes, r)

SizeWriteLong ==
    /\ ~panicked
    /\ last.writes < MaxLongWrites
    /\ \E n \in LongLengths, c \in LongDecoded :
       \E r \in { write_decoded(himpl, hasher, c, n, overflow_checks) } :
        /\ hasher' = r.h
        /\ panicked' = r.panic
        /\ last' = [op |-> "write", arg |-> <<n>>, pre |-> hasher, ret |-> NoWord,
                    prev_ret |-> NoWord, writes |-> last.writes + 1,
                    total |-> wrapping_add(last.total, n)]
        /\ UNCHANGED <<mx, svars, bvars, gvars, himpl, overflow_checks, made, twin>>

NextSize == SizeWrite \/ SizeWriteLong

SpecSize == InitSize /\ [][NextSize]_vars

---------------------------------------------------------------------------
(* Exact arithmetic for the properties: an integer below the product of    *)
(* CheckPrimes (over 2^134) is determined by its residues modulo them.     *)

CheckPrimes == {32749, 32719, 32717, 32713, 32707, 32693, 32687, 32653, 32647}

\* the value of the little-endian bytes x from byte i on, modulo p
RECURSIVE Residue(_, _, _)
Residue(x, i, p) ==
    IF i > Len(x) THEN 0
    ELSE (x[i] + 256 * Residue(x, i + 1, p)) % p

\* x = a * b as integers
IsProduct(x, a, b) ==
    \A p \in CheckPrimes :
        Residue(x, 1, p) = (Residue(a, 1, p) * Residue(b, 1, p)) % p

\* x = (a + b) mod 2^64 as integers
IsWrappedSum(x, a, b) ==
    \E c \in {0, 1} :
        \A p \in CheckPrimes :
            Residue(x, 1, p) =
                (Residue(a, 1, p) + Residue(b, 1, p)
                   + c * (p - Residue(<<0, 0, 0, 0, 0, 0, 0, 0, 1>>, 1, p))) % p

\* bit n (0 the lowest) of a word
Bit(x, n) == (x[(n \div 8) + 1] \div (2 ^ (n % 8))) % 2

\* x = a ^ b, bit for bit
IsXor(x, a, b) ==
    \A n \in 0..(8 * Len(x) - 1) : Bit(x, n) = (Bit(a, n) + Bit(b, n)) % 2

IsWord(x) == Len(x) = 8 /\ \A i \in 1..8 : x[i] \in 0..255

---------------------------------------------------------------------------
(* C2: wymul(a, b) returns (lo, hi) with lo + hi * 2^64 = a * b exactly,   *)
(* both halves 64-bit words, and wymix(a, b) is lo XOR hi of that product. *)
WymulIsExactProduct ==
    /\ mx.mul # NoWord =>
          /\ IsWord(mx.mul[1]) /\ IsWord(mx.mul[2])
          /\ IsProduct(mx.mul[1] \o mx.mul[2], mx.first, mx.second)
    /\ mx.mix # NoWord =>
          /\ IsWord(mx.mix)
          /\ LET lo == wymul(mx.first, mx.second)[1]
                 hi == wymul(mx.first, mx.second)[2]
             IN  /\ IsProduct(lo \o hi, mx.first, mx.second)
                 /\ IsXor(mx.mix, lo, hi)

\* both results computed for a product that needs more than 64 bits
WymulWitness ==
    /\ mx.mul # NoWord /\ mx.mix # NoWord
    /\ mx.mul[2] # Zero64
    /\ mx.first = MaxU64 /\ mx.second = MaxU64

---------------------------------------------------------------------------
(* C1: one draw sets state to (s + WY0) mod 2^64 and returns               *)
(* mix(s', s' XOR WY1) of the new state s', which is stored without the    *)
(* XOR; rand() returns the value and leaves the state gen_u64(s) gives.    *)
DrawOf(g) ==
    LET r == RevOf(impl)
        v == g.out[Len(g.out)]
    IN  /\ IsWord(g.state)
        /\ IsWrappedSum(g.state, g.prev, WY0(r))
        /\ LET m == xor(g.state, WY1(r))
           IN  IsXor(m, g.state, WY1(r)) /\ v = wymix(g.state, m)
        /\ << v, g.state >> = gen_u64(g.prev, r)

DrawIsGenU64 ==
    /\ Len(rng.out) > 0 => DrawOf(rng)
    /\ Len(cloned.out) > 0 => DrawOf(cloned)

\* a draw has been made whose addition wrapped past 2^64
DrawWitness ==
    /\ Len(rng.out) > 0
    /\ add_overflows(rng.prev, WY0(RevOf(impl)))
    /\ rng.state # Zero64

---------------------------------------------------------------------------
(* C3: two generators made from the same seed that have made the same      *)
(* number of draws have equal states and have emitted the same outputs;    *)
(* when one has drawn exactly once more their states differ; the state     *)
(* after a draw differs from the state before it.                          *)
SameSeedSameStream ==
    /\ Len(rng.out) = Len(cloned.out) =>
          rng.state = cloned.state /\ rng.out = cloned.out
    /\ (Len(rng.out) = Len(cloned.out) + 1 \/ Len(cloned.out) = Len(rng.out) + 1)
          => rng.state # cloned.state
    /\ Len(rng.out) > 0 => rng.state # rng.prev
    /\ Len(cloned.out) > 0 => cloned.state # cloned.prev

\* the clone has drawn twice and the original once
SameStreamWitness ==
    /\ Len(rng.out) = 1 /\ Len(cloned.out) = 2
    /\ rng.out[1] = cloned.out[1]
    /\ rng.state # cloned.state


---------------------------------------------------------------------------
(* The hasher's constructors, writes and finish.                           *)

FixedOps ==
    { "write_u8", "write_u16", "write_u32", "write_u64", "write_u128", "write_usize" }

\* the seed a write leaves pending chunks folded into
Folded(h) == IF h.size # Zero64 THEN wymix(h.lo, xor(h.hi, h.seed)) ELSE h.seed

\* C4: a constructed hasher has seed = seed XOR mix(seed XOR secret[0], secret[1]),
\* lo = hi = size = 0 and the secret of the call: the given one for
\* new_with_secret, WY0..WY3 for new_with_default_secret and for Default (whose
\* seed is 0), make_secret(secret_seed) for new.
ConstructedState ==
    last.op = "none" =>
        LET r == HRevOf(himpl)
            seed == IF made.ctor = "default" THEN Zero64 ELSE made.seed
            secret == IF made.ctor = "new_with_secret" THEN made.secret
                      ELSE IF made.ctor = "new" THEN make_secret(made.secret_seed, r)
                      ELSE << WY0(r), WY1(r), WY2(r), WY3(r) >>
        IN  /\ hasher.seed = xor(seed, wymix(xor(seed, secret[1]), secret[2]))
            /\ hasher.lo = Zero64
            /\ hasher.hi = Zero64
            /\ hasher.size = Zero64
            /\ hasher.secret = secret

ConstructedWitness ==
    /\ last.op = "none"
    /\ made.ctor = "new_with_secret"
    /\ made.seed = U64(1)
    /\ hasher.secret = TestSecret(HRevOf(himpl))
    /\ hasher.seed \notin { Zero64, made.seed }

\* C5: finish() leaves seed, lo, hi, size and secret as they were, and a finish
\* right after a finish returns what the first returned.
FinishLeavesState ==
    last.op = "finish" =>
        /\ hasher = last.pre
        /\ last.prev_ret # NoWord => last.ret = last.prev_ret

FinishTwiceWitness ==
    /\ last.op = "finish"
    /\ last.prev_ret # NoWord
    /\ last.writes = 2
    /\ hasher.size # Zero64

\* C6: finish() returns mix(lo' XOR secret[0] XOR size, hi' XOR secret[1]) with
\* (lo', hi') = widen_multiply(lo XOR secret[1], hi XOR seed).
FinishFormula ==
    last.op = "finish" =>
        LET h == last.pre
            p == wymul(xor(h.lo, h.secret[2]), xor(h.hi, h.seed))
        IN  last.ret = wymix(xor(xor(p[1], h.secret[1]), h.size), xor(p[2], h.secret[2]))

\* the vector of tests::expected_hasher_output for "a" with seed 1
FinishWitness ==
    /\ last.op = "finish"
    /\ himpl = "final_v4_2"
    /\ made.ctor = "new_with_default_secret"
    /\ made.seed = U64(1)
    /\ last.writes = 1
    /\ hasher.size = U64(1)
    /\ hasher.lo = W64(0, 0, \h0061, \h6161)
    /\ last.ret = W64(\hc5ba, \hc3db, \h1787, \h13c4)

\* C7: a write(bytes) to a hasher whose size is not 0 first folds the pending
\* chunk, seed = mix(lo, hi XOR seed), then decodes bytes with that seed and
\* stores the result as the pending lo, hi and seed; with size 0 nothing is
\* folded.
WriteFoldsPending ==
    last.op = "write" =>
        LET c == consume_bytes(himpl, [last.pre EXCEPT !.seed = Folded(last.pre)], last.arg)
        IN  /\ hasher.lo = c[1]
            /\ hasher.hi = c[2]
            /\ hasher.seed = c[3]

\* C9 as amended: a fixed-width write folds the pending chunk when size is not
\* 0, sets lo to the low 64 bits of the integer and hi to its high 64 bits (0
\* but for write_u128), and adds 16 to size for write_u128 and 8 for every
\* other width.
FixedWidthWrite ==
    last.op \in FixedOps =>
        LET wide == last.op = "write_u128"
        IN  /\ hasher.seed = Folded(last.pre)
            /\ \A k \in 1..8 : hasher.lo[k] = IF k <= Len(last.arg) THEN last.arg[k] ELSE 0
            /\ \A k \in 1..8 : hasher.hi[k] = IF wide THEN last.arg[k + 8] ELSE 0
            /\ IsWrappedSum(hasher.size, last.pre.size, U64(IF wide THEN 16 ELSE 8))
            /\ hasher.secret = last.pre.secret

FixedWidthWitness ==
    /\ last.op = "write_u16"
    /\ last.pre.size = U64(16)
    /\ hasher.size = U64(24)
    /\ hasher.seed # last.pre.seed

\* C9: a fixed-width write increases size by the byte width of the written type.
FixedWidthAddsByteWidth ==
    last.op \in FixedOps =>
        IsWrappedSum(hasher.size, last.pre.size, U64(Len(last.arg)))

\* C8: two sequences of writes from the same initial hasher that differ in an
\* earlier chunk and agree in every later chunk finish with different values.
EarlierChunkKept ==
    (last.op = "finish" /\ last.writes >= 2) => last.ret # twin.ret

\* C10: after byte-stream writes size is the sum of the lengths written modulo
\* 2^64, and a write that takes the counter past 2^64 - 1 wraps it instead of
\* failing.
SizeIsWrappedSum ==
    /\ ~panicked
    /\ hasher.size = last.total

---------------------------------------------------------------------------
---------------------------------------------------------------------------
\* k is a prime number: it is above 1 and no d with d * d <= k divides it
IsPrimeNumber(k) ==
    /\ k > 1
    /\ \A d \in 2..1200 : (d * d <= k) => (k % d # 0)

\* C13: is_prime(n) returns true exactly when n is a prime number: false below
\* 2, true for 2 and 3, false for every even n from 4 on, and no false positive
\* and no false negative among the odd n.
IsPrimeExact ==
    primality.called => (primality.ret = IsPrimeNumber(primality.n))

---------------------------------------------------------------------------
\* the number of bits in which the words a and b differ
Differing(a, b) ==
    Cardinality({ n \in 0..63 : Bit(a, n) # Bit(b, n) })

\* C12: the constants make_secret has accepted are odd, every two of them
\* differ in exactly 32 bits, and in revision v4.2 each has passed is_prime:
\* the constant just accepted passes it, and the accepted constants are kept as
\* they were accepted.  What make_secret returns are the four accepted
\* constants.
SecretInvariants ==
    /\ \A j \in 1..making.i :
          /\ Bit(making.secret[j], 0) = 1
          /\ \A k \in 1..(j - 1) : Differing(making.secret[k], making.secret[j]) = 32
          /\ making.passed[j] = making.secret[j]
    /\ Len(making.passed) = making.i
    /\ (making.r = "v4_2" /\ making.ok) => is_prime(making.secret[making.i])
    /\ making.i = 4 => making.secret = make_secret(making.from, making.r)

\* make_secret of revision v4.2 has accepted its second constant
SecretPrimeWitness ==
    /\ making.r = "v4_2"
    /\ making.i = 2
    /\ making.ok

\* the values of a sequence
Range(seq) == { seq[k] : k \in 1..Len(seq) }

\* C14: in a build with fully_randomised_wyhash, however the threads' calls of
\* RandomWyHashState::new() interleave, the closure of SECRET.get_or_init
\* completes at most once, and all builders new() has returned hold one
\* secret, the value of SECRET.
BuildersShareSecret ==
    SECRET.state # "absent" =>
        /\ SECRET.completed <= 1
        /\ \A t \in Threads : \A u \in Threads :
              ( /\ threads[t].call = "new" /\ threads[t].pc = "returned"
                /\ threads[u].call = "new" /\ threads[u].pc = "returned" )
              => /\ threads[t].ret.secret = threads[u].ret.secret
                 /\ threads[t].ret.secret = SECRET.value
                 /\ SECRET.completed = 1

\* two threads have called new() and each has its builder, of the secret the
\* first of them generated
BuildersWitness ==
    /\ SECRET.state = "init"
    /\ SECRET.completed = 1
    /\ \A t \in {1, 2} : threads[t].call = "new" /\ threads[t].pc = "returned"
    /\ Len(threads[1].got) = 2
    /\ Len(threads[2].got) = 1
    /\ threads[2].ret.secret = gen_new_secret(himpl, threads[1].got[1])
    /\ threads[1].ret.state # threads[2].ret.state

\* C15: a thread whose get_random_u64 has panicked draws no more, and has no
\* builder; a builder returned holds the value the entropy source gave for its
\* state and, from new() of a build with fully_randomised_wyhash, a secret made
\* of a value the source gave; SECRET holds a value only of a closure that
\* completed, made of a value the source gave, and a closure that panicked
\* leaves it uninitialised.
EntropyFailureAborts ==
    /\ \A t \in Threads :
        /\ threads[t].failed <= 1
        /\ threads[t].failed = 1 =>
              /\ threads[t].pc = "panicked"
              /\ threads[t].ret = NoBuilder
        /\ threads[t].pc = "returned" =>
              /\ threads[t].failed = 0
              /\ threads[t].ret.state = threads[t].got[Len(threads[t].got)]
              /\ threads[t].ret.state \in Range(entropy.given)
              /\ threads[t].call = "new_with_secret" =>
                    threads[t].ret.secret = TestSecret(HRevOf(himpl))
              /\ (threads[t].call = "new" /\ SECRET.state = "absent") =>
                    threads[t].ret.secret = DefaultSecret(HRevOf(himpl))
              /\ (threads[t].call = "new" /\ SECRET.state # "absent") =>
                    \E v \in Range(entropy.given) :
                        threads[t].ret.secret = expected_results(HRevOf(himpl), v)
    /\ entropy.draws =
          Len(entropy.given) + Cardinality({ t \in Threads : threads[t].failed = 1 })
    /\ SECRET.state = "init" =>
          /\ SECRET.completed = 1
          /\ \E v \in Range(entropy.given) :
                SECRET.value = expected_results(HRevOf(himpl), v)
    /\ SECRET.state # "init" => SECRET.value = << >> /\ SECRET.completed = 0
    /\ SECRET.state = "running" <=> \E t \in Threads : threads[t].pc = "gen_new_secret"

\* one thread's new() has panicked inside the closure of get_or_init and has
\* left SECRET uninitialised, the other's in new_with_secret
EntropyFailureWitness ==
    /\ SECRET.state = "uninit"
    /\ threads[1].call = "new"
    /\ threads[1].pc = "panicked"
    /\ threads[1].secret = << >>
    /\ threads[2].call = "new_with_secret"
    /\ threads[2].pc = "panicked"
    /\ entropy.draws = 2
    /\ entropy.given = << >>

\* C18: from_rng and try_from_rng draw once from the source, which is left one
\* step on and one value further, and the new generator starts from the value
\* drawn, so that its first draw is rand of that value; a try_from_rng whose
\* draw fails returns the error, and there is no new generator.
FromRngDrawsOnce ==
    /\ source.made \in {"from_rng", "try_from_rng"} =>
        /\ source.post.state = rand(impl, source.pre.state)[2]
        /\ source.post.out = Append(source.pre.out, rand(impl, source.pre.state)[1])
        /\ rng.out = << >> => rng.state = rand(impl, source.pre.state)[1]
        /\ Len(rng.out) = 1 =>
              /\ rng.prev = rand(impl, source.pre.state)[1]
              /\ rng.out[1] = rand(impl, rand(impl, source.pre.state)[1])[1]
    /\ source.made = "Err" =>
        /\ rng = IdleRng
        /\ source.g = new(source.g.state)

\* tests::rand_core_from_rng: the generator seeded from WyRand::from_seed of
\* the default seed returns 844672934 from next_u32 (4242651740 in the legacy
\* revision)
FromRngWitness ==
    /\ source.made = "from_rng"
    /\ source.pre = new(Zero64)
    /\ Len(rng.out) = 1
    /\ SubSeq(rng.out[1], 1, 4) =
          IF impl = "final_v4_2" THEN << \ha6, \haf, \h58, \h32 >>
          ELSE << \h5c, \hba, \he1, \hfc >>

\* the calls that write
WriteOps ==
    {"write", "write_u8", "write_u16", "write_u32", "write_u64", "write_u128",
     "write_usize"}

\* C19, as the claim has it: finish leaves the seed as it was, and so does
\* every write, of a slice of any length or of an integer, on a hasher whose
\* size is 0.
SeedKeptWhileSizeIsZero ==
    /\ last.op = "finish" => hasher.seed = last.pre.seed
    /\ (last.op \in WriteOps /\ ~panicked /\ last.pre.size = Zero64)
        => hasher.seed = last.pre.seed

\* C19, amended: finish leaves the seed as it was, and so does, on a hasher
\* whose size is 0, every write of an integer and every write of a slice of at
\* most 16 bytes; a slice of 17 bytes written to such a hasher takes the seed
\* through one 16-byte round.
SeedKeptByShortWrites ==
    /\ last.op = "finish" => hasher.seed = last.pre.seed
    /\ (last.op \in WriteOps /\ ~panicked /\ last.pre.size = Zero64) =>
        /\ (last.op # "write" \/ Len(last.arg) <= 16) => hasher.seed = last.pre.seed
        /\ (last.op = "write" /\ Len(last.arg) = 17) =>
              /\ hasher.seed # last.pre.seed
              /\ hasher.seed =
                    wymix(xor(SubSeq(last.arg, 1, 8), second(last.pre.secret)),
                          xor(SubSeq(last.arg, 9, 16), last.pre.seed))

\* "abcdef" has been written to a hasher that had consumed nothing
SeedKeptWitness ==
    /\ last.op = "write"
    /\ Len(last.arg) = 6
    /\ last.pre.size = Zero64
    /\ hasher.size = U64(6)
    /\ hasher.lo # Zero64
    /\ himpl \in Streaming

\* C16: a write of a chunk of any length returns: every slice consume_bytes
\* takes starts inside the chunk or at its end, every byte the readers index
\* is a byte of the chunk, the offsets are those of the source, the 48-byte
\* rounds and the 16-byte rounds keep start + index = length, and the loops
\* end with at most 16 bytes left over.
ReadsInsideChunk ==
    last.op = "write" =>
        LET length == Len(last.arg)
            reads == last.steps.reads
        IN  /\ ~panicked
            /\ hasher.size = wrapping_add(last.pre.size, U64(length))
            /\ \A k \in 1..Len(reads) :
                /\ 0 <= reads[k].start /\ reads[k].start <= length
                /\ \A j \in reads[k].idx :
                      0 <= reads[k].start + j /\ reads[k].start + j < length
            /\ length = 0 => reads = << >>
            /\ length \in 1..3 => Len(reads) = 1 /\ reads[1].fn = "read_upto_3_bytes"
            /\ length \in 4..16 =>
                  /\ Len(reads) = 4
                  /\ \A k \in 1..4 : reads[k].fn = "read_4_bytes"
                  /\ << reads[1].start, reads[2].start, reads[3].start, reads[4].start >>
                        = << 0, (length \div 8) * 4, length - 4,
                             length - 4 - (length \div 8) * 4 >>
            /\ length > 16 =>
                  /\ \A k \in 1..Len(reads) : reads[k].fn = "read_8_bytes"
                  /\ reads[Len(reads) - 1].start = length - 16
                  /\ reads[Len(reads)].start = length - 8
                  /\ last.steps.after48[1] + last.steps.after48[2] = length
                  /\ last.steps.after16[1] + last.steps.after16[2] = length
                  /\ last.steps.after16[1] \in 0..16
                  /\ Len(reads) =
                        2 + 6 * (last.steps.after48[2] \div 48)
                          + 2 * ((last.steps.after16[2] - last.steps.after48[2]) \div 16)
                  /\ last.steps.after48[2] >= 48 =>
                        reads[6 * (last.steps.after48[2] \div 48)].start
                            = last.steps.after48[2] - 48 + 40

\* 97 bytes have been written: two 48-byte rounds in revision v4.2, the last
\* of which reads 8 bytes at 88, and one in the legacy revision
ReadsWitness ==
    /\ last.op = "write"
    /\ Len(last.arg) = 97
    /\ ~panicked
    /\ himpl = "final_v4_2"
    /\ last.steps.after48 = << 1, 96 >>
    /\ last.steps.reads[12].start = 88
    /\ last.pre.size = U64(1)
    /\ hasher.size = U64(98)

\* the seed a write's decoding starts from
SeedBeforeDecode ==
    IF himpl \in Streaming /\ last.pre.size # Zero64
    THEN wymix(last.pre.lo, xor(last.pre.hi, last.pre.seed))
    ELSE last.pre.seed

\* the 8 bytes of the chunk written from offset at on, as a u64
Le64(at) == SubSeq(last.arg, at + 1, at + 8)

\* one 16-byte round at offset at, with the k-th constant of the secret
Round(at, k, seed) ==
    wymix(xor(Le64(at), last.pre.secret[k]), xor(Le64(at + 8), seed))

\* one 48-byte round at offset at, its three seeds xored
SuperRound(at, seed) ==
    xor(Round(at, 2, seed), xor(Round(at + 16, 3, seed), Round(at + 32, 4, seed)))

\* C17: the 48-byte rounds run once for every 48 bytes of a chunk of 48 bytes
\* or more in revision v4.2, and once for every 48 bytes ahead of the last
\* byte of a chunk of more than 48 in the legacy revision.  A chunk of exactly
\* 48 bytes goes through one 48-byte round and no 16-byte round in v4.2, and
\* through two 16-byte rounds only in the legacy revision; a chunk of 96 bytes
\* through two 48-byte rounds in v4.2, and through one 48-byte round and two
\* 16-byte rounds in the legacy revision.
Boundary48 ==
    (last.op = "write" /\ Len(last.arg) > 16) =>
        LET length == Len(last.arg)
            supers == last.steps.after48[2] \div 48
            blocks == (last.steps.after16[2] - last.steps.after48[2]) \div 16
        IN  /\ HRevOf(himpl) = "v4_2" =>
                  supers = IF length >= 48 THEN length \div 48 ELSE 0
            /\ HRevOf(himpl) = "v4" =>
                  supers = IF length > 48 THEN (length - 1) \div 48 ELSE 0
            /\ blocks = (length - 48 * supers - 1) \div 16 \/ length = 48 * supers
            /\ length = 48 * supers => blocks = 0
            /\ length = 48 =>
                  /\ hasher.lo = Le64(32)
                  /\ hasher.hi = Le64(40)
                  /\ HRevOf(himpl) = "v4_2" =>
                        /\ supers = 1 /\ blocks = 0
                        /\ hasher.seed = SuperRound(0, SeedBeforeDecode)
                  /\ HRevOf(himpl) = "v4" =>
                        /\ supers = 0 /\ blocks = 2
                        /\ hasher.seed = Round(16, 2, Round(0, 2, SeedBeforeDecode))
            /\ length = 96 =>
                  /\ HRevOf(himpl) = "v4_2" =>
                        /\ supers = 2 /\ blocks = 0
                        /\ hasher.seed =
                              LET one == << Round(0, 2, SeedBeforeDecode),
                                            Round(16, 3, SeedBeforeDecode),
                                            Round(32, 4, SeedBeforeDecode) >>
                              IN  xor(Round(48, 2, one[1]),
                                      xor(Round(64, 3, one[2]), Round(80, 4, one[3])))
                  /\ HRevOf(himpl) = "v4" =>
                        /\ supers = 1 /\ blocks = 2
                        /\ hasher.seed =
                              Round(64, 2, Round(48, 2, SuperRound(0, SeedBeforeDecode)))

\* 48 bytes have been written to a hasher of the legacy revision with a
\* chunk pending: two 16-byte rounds
Boundary48Witness ==
    /\ last.op = "write"
    /\ Len(last.arg) = 48
    /\ himpl = "legacy_final_v4"
    /\ last.pre.size = U64(1)
    /\ last.steps.after48 = << 48, 0 >>
    /\ last.steps.after16 = << 16, 32 >>
    /\ hasher.seed # last.pre.seed
    /\ ~panicked

\* C20: a chunk of at most 16 bytes leaves the seed as its decoding found it,
\* and is decoded to lo = hi = 0 when empty, to lo = b[0] << 16 | b[L >> 1] << 8
\* | b[L - 1] and hi = 0 when of 1 to 3 bytes, and when of 4 to 16 bytes to lo
\* = the 4 bytes at 0, above the 4 bytes at (L >> 3) << 2, and hi = the 4 bytes
\* at L - 4, above the 4 bytes at L - 4 - ((L >> 3) << 2), each 4 bytes read
\* little-endian.
ShortChunkDecoded ==
    (last.op = "write" /\ Len(last.arg) <= 16 /\ ~(himpl \notin Streaming /\ last.arg = << >>))
    =>  LET b == last.arg
            L == Len(last.arg)
            o == (L \div 8) * 4
        IN  /\ hasher.seed = SeedBeforeDecode
            /\ L = 0 => hasher.lo = Zero64 /\ hasher.hi = Zero64
            /\ L \in 1..3 =>
                  /\ hasher.lo = << b[L], b[L \div 2 + 1], b[1], 0, 0, 0, 0, 0 >>
                  /\ hasher.hi = Zero64
            /\ L \in 4..16 =>
                  /\ hasher.lo = SubSeq(b, o + 1, o + 4) \o SubSeq(b, 1, 4)
                  /\ hasher.hi = SubSeq(b, L - 4 - o + 1, L - o) \o SubSeq(b, L - 3, L)

\* 11 bytes have been written: lo is bytes 4..7 below bytes 0..3, hi bytes
\* 3..6 below bytes 7..10
ShortChunkWitness ==
    /\ last.op = "write"
    /\ Len(last.arg) = 11
    /\ hasher.lo = << 196, 233, 14, 51, 48, 85, 122, 159 >>
    /\ hasher.hi = << 159, 196, 233, 14, 51, 88, 125, 162 >>
    /\ hasher.seed = last.pre.seed
    /\ last.pre.size = Zero64

\* the 48-byte rounds a chunk of length bytes goes through
SuperRounds(length) ==
    IF HRevOf(himpl) = "v4_2" THEN length \div 48
    ELSE IF length > 48 THEN (length - 1) \div 48 ELSE 0

\* the k-th of the three seeds (k = 2, 3, 4, that of the k-th constant of the
\* secret) after j 48-byte rounds: it starts from the seed, and round j reads
\* its 16 bytes at 48 (j - 1) + 16 (k - 2)
RECURSIVE SubSeed(_, _)
SubSeed(k, j) ==
    IF j = 0 THEN SeedBeforeDecode
    ELSE Round(48 * (j - 1) + 16 * (k - 2), k, SubSeed(k, j - 1))

\* the seed after the 48-byte rounds and j 16-byte rounds
RECURSIVE BlockSeed(_, _)
BlockSeed(supers, j) ==
    IF j = 0
    THEN IF supers = 0 THEN SeedBeforeDecode
         ELSE xor(SubSeed(2, supers), xor(SubSeed(3, supers), SubSeed(4, supers)))
    ELSE Round(48 * supers + 16 * (j - 1), 2, BlockSeed(supers, j - 1))

\* C21: a chunk of more than 16 bytes leaves the seed that the 48-byte rounds,
\* each of three seeds begun at the current seed and mixed with its own
\* constant of the secret, the xor of the three (when there was a 48-byte
\* round), and the 16-byte rounds on what is left beyond 16 bytes give in
\* turn; lo is the 8 bytes at L - 16 and hi the 8 bytes at L - 8.
BulkDecoded ==
    (last.op = "write" /\ Len(last.arg) > 16) =>
        LET L == Len(last.arg)
            supers == SuperRounds(L)
            left == L - 48 * supers
            blocks == IF left > 16 THEN (left - 1) \div 16 ELSE 0
        IN  /\ hasher.seed = BlockSeed(supers, blocks)
            /\ hasher.lo = Le64(L - 16)
            /\ hasher.hi = Le64(L - 8)
            /\ hasher.secret = last.pre.secret

\* 145 bytes have been written to a hasher of revision v4.2 with a chunk
\* pending: three 48-byte rounds and no 16-byte round
BulkWitness ==
    /\ last.op = "write"
    /\ Len(last.arg) = 145
    /\ HRevOf(himpl) = "v4_2"
    /\ last.pre.size = U64(1)
    /\ last.steps.after48 = << 1, 144 >>
    /\ hasher.seed = xor(SubSeed(2, 3), xor(SubSeed(3, 3), SubSeed(4, 3)))
    /\ hasher.seed # last.pre.seed
    /\ hasher.hi = Le64(137)

\* C30: every byte of a chunk is indexed by one of the reads of consume_bytes.
EveryByteRead ==
    last.op = "write" =>
        \A at \in 0..(Len(last.arg) - 1) :
            \E k \in 1..Len(last.steps.reads) :
                \E j \in last.steps.reads[k].idx : last.steps.reads[k].start + j = at

\* 3 bytes have been written, and the byte in the middle has been read
EveryByteWitness ==
    /\ last.op = "write"
    /\ Len(last.arg) = 3
    /\ ~panicked
    /\ last.steps.reads[1].idx = {0, 1, 2}
    /\ hasher.lo = << last.arg[3], last.arg[2], last.arg[1], 0, 0, 0, 0, 0 >>

\* the writes of integers narrower than a u64
NarrowOps == {"write_u8", "write_u16", "write_u32", "write_usize"}

\* C27: write_u8(x), write_u16(x), write_u32(x) and write_usize(x) leave the
\* hasher as write_u64 of the same number leaves it: the same seed, lo = x,
\* hi = 0, and the size 8 more.
NarrowWriteIsWriteU64 ==
    (last.op \in NarrowOps /\ ~panicked) =>
        LET x == last.arg \o [j \in 1..(8 - Len(last.arg)) |-> 0]
            wide == write_u64(last.pre, x, overflow_checks).h
        IN  /\ hasher = wide
            /\ hasher.seed = wide.seed
            /\ hasher.lo = x
            /\ hasher.hi = Zero64
            /\ hasher.size = wrapping_add(last.pre.size, U64(8))
            /\ wide.size = wrapping_add(last.pre.size, U64(8))

\* write_u16(1000) has been called on a hasher that held write_u64(1000): the
\* state is that of a second write_u64(1000)
NarrowWriteWitness ==
    /\ last.op = "write_u16"
    /\ last.arg = << 232, 3 >>
    /\ last.pre.lo = U64(1000)
    /\ last.pre.size = U64(8)
    /\ hasher.lo = U64(1000)
    /\ hasher.size = U64(16)
    /\ hasher.seed # last.pre.seed

\* C29: a write on a hasher whose size is not 0 and whose pending lo is 0
\* starts from the seed 0, and so leaves the seed 0 when it is a write_u64 or
\* a write of at most 16 bytes; a second hasher of the same secret and size,
\* with a pending lo of 0 too, is in the same state after the same write,
\* whatever the two had been given before.
ZeroLoForgetsSeed ==
    ( /\ last.op \in {"write", "write_u64"}
      /\ ~panicked
      /\ last.pre.size # Zero64
      /\ last.pre.lo = Zero64 ) =>
        /\ (last.op = "write_u64" \/ Len(last.arg[1]) <= 16) => hasher.seed = Zero64
        /\ ( /\ twin.pre.lo = Zero64
             /\ twin.pre.size = last.pre.size
             /\ twin.pre.secret = last.pre.secret
             /\ last.arg[1] = last.arg[2] ) => twin.h = hasher

\* "a" then a zero byte on one hasher, "b" then a zero byte on the other:
\* their seeds differ, and the third write leaves the two in one state
ZeroLoWitness ==
    /\ last.op = "write"
    /\ last.writes = 3
    /\ last.pre.lo = Zero64
    /\ twin.pre.lo = Zero64
    /\ last.pre.size = U64(2)
    /\ twin.pre.size = U64(2)
    /\ last.pre.seed # twin.pre.seed
    /\ last.pre.seed # Zero64
    /\ twin.h = hasher
    /\ hasher.seed = Zero64

---------------------------------------------------------------------------
RECURSIVE Advance(_, _, _)
\* the state of the generator of revision r k draws after the state seed
Advance(r, seed, k) ==
    IF k = 0 THEN seed ELSE wrapping_add(Advance(r, seed, k - 1), WY0(r))

\* the value of draw k, counted from 0, of the stream that starts at seed
DrawValue(r, seed, k) == gen_u64(Advance(r, seed, k), r)[1]

\* C22: the candidate just drawn is built from 8 consecutive draws of the
\* generator of the same revision, in the stream that starts at the caller's
\* seed: byte k of the candidate (its bits 8k .. 8k+7) is the entry of the
\* table of byte values whose index is the value of draw k modulo the length
\* of the table, and the generator is left 8 draws further.
CandidateFromEightDraws ==
    making.tries > 0 =>
        /\ making.before = Advance(making.r, making.from, 8 * (making.tries - 1))
        /\ making.seed = Advance(making.r, making.before, 8)
        /\ \A k \in 0..7 :
              making.drawn[k + 1] =
                  C_VALUES[Residue(DrawValue(making.r, making.before, k), 1,
                                   Len(C_VALUES)) + 1]

\* the candidate the 8 draws after the state seed select, lane by lane
TableLanes(r, seed) ==
    [k \in 1..8 |->
        C_VALUES[Residue(DrawValue(r, seed, k - 1), 1, Len(C_VALUES)) + 1]]

\* the candidate c is odd, differs in exactly 32 bits from every constant
\* accepted before it and, in revision v4.2, passes the primality test
Passes(r, accepted, c) ==
    /\ Bit(c, 0) = 1
    /\ \A k \in 1..Len(accepted) : Differing(accepted[k], c) = 32
    /\ r = "v4_2" => is_prime(c)

\* one round of make_secret on a 64-bit target
AcceptsFirstPassing ==
    making' # making =>
        /\ making.i < 4
        /\ making'.tries = making.tries + 1
        /\ making'.drawn = TableLanes(making.r, making.seed)
        /\ making'.seed = Advance(making.r, making.seed, 8)
        /\ SubSeq(making'.secret, 1, making.i) = making.passed
        /\ IF Passes(making.r, making.passed, making'.drawn)
           THEN /\ making'.i = making.i + 1
                /\ making'.passed = Append(making.passed, making'.drawn)
                /\ making'.secret[making.i + 1] = making'.drawn
           ELSE /\ making'.i = making.i
                /\ making'.passed = making.passed
        /\ (making'.i = 4 /\ making.from = U64(3)) =>
              making'.secret = expected_results(making.r, making.from)

\* C23: make_secret fills the slots 0 .. 3 in order.  Every round draws a whole
\* new candidate from the next 8 draws of the stream; the candidate is accepted
\* for the slot being filled exactly when it is odd, differs in exactly 32 bits
\* from every accepted constant and (revision v4.2) passes the primality test,
\* so that the constant of slot i is the first such candidate after the one
\* accepted for slot i-1; a rejected candidate leaves the slot to be filled
\* again, the accepted slots are never modified, and the secret of seed 3 is
\* the one its tests list.
FirstPassingCandidate == [][AcceptsFirstPassing]_vars

\* make_secret_legacy(3) has returned the secret of its tests after rejecting
\* 105 candidates
FirstPassingWitness ==
    /\ making.r = "v4"
    /\ making.from = U64(3)
    /\ making.i = 4
    /\ making.tries = 109
    /\ making.secret = expected_results("v4", U64(3))
    /\ making.passed = making.secret

Mod128(x, m) == LongRem(x, m, 64, LongRem(SubSeq(x, 9, 16), m, 64, Zero64))

\* x is below 2^15, and its value
IsShort(x) == x[2] < 128 /\ \A i \in 3..8 : x[i] = 0

Short(x) == x[1] + 256 * x[2]

\* (a * b) mod m: as integers when a, b and m are below 2^15, from the 128-bit
\* product when they are not
ProductMod(a, b, m) ==
    IF IsShort(a) /\ IsShort(b) /\ IsShort(m)
    THEN U64((Short(a) * Short(b)) % Short(m))
    ELSE Mod128(wrapping_mul(as_u128(a), as_u128(b)), m)

RECURSIVE PowerMod(_, _, _)
\* (a ^ b) mod m, m above 1, from the high bits of b down
PowerMod(a, b, m) ==
    IF b = Zero64 THEN U64(1)
    ELSE LET h == PowerMod(a, shr1(b), m)
             sq == ProductMod(h, h, m)
         IN  IF h = << >> THEN h
             ELSE IF is_odd(b) THEN ProductMod(sq, a, m) ELSE sq

\* C25: mul_mod(a, b, m) is (a * b) mod m for every a, b and every modulus
\* m >= 1, and pow_mod(a, b, m) is (a ^ b) mod m for every modulus m >= 2, also
\* when r + a or a + a passes 2^64 - 1.
ModArithmeticExact ==
    primality.called =>
        /\ primality.of = "mul_mod" =>
              primality.ret = ProductMod(primality.a, primality.b, primality.m)
        /\ (primality.of = "pow_mod" /\ primality.m # U64(1)) =>
              primality.ret = PowerMod(primality.a, primality.b, primality.m)

\* 2^s as a u64, s below 64
PowerOfTwo(s) == [i \in 1..8 |-> IF i = (s \div 8) + 1 THEN 2 ^ (s % 8) ELSE 0]

RECURSIVE SquaredTimes(_, _, _)
\* x ^ (2^r) mod n
SquaredTimes(x, r, n) ==
    IF r = 0 THEN x
    ELSE LET y == SquaredTimes(x, r - 1, n)
         IN  IF y = << >> THEN y ELSE ProductMod(y, y, n)

RECURSIVE SomeSquare(_, _, _, _)
\* x ^ (2^k) mod n is n - 1 for some k in 1 .. count
SomeSquare(x, count, n, minus1) ==
    IF count <= 0 \/ x = << >> THEN FALSE
    ELSE \E y \in { ProductMod(x, x, n) } :
            y = minus1 \/ SomeSquare(y, count - 1, n, minus1)

\* a^d mod n is 1 or n - 1, or a^(d * 2^r) mod n is n - 1 for some 1 <= r < s
StrongProbable(n, a, d, s) ==
    LET x == PowerMod(a, d, n)
        minus1 == wrapping_sub(n, U64(1))
    IN  \/ x = U64(1)
        \/ x = minus1
        \/ SomeSquare(x, s - 1, n, minus1)

\* C26: for an odd n >= 5, the shifts at the start of sprp (by 8 while the low
\* byte of d is zero, then at most once by 4, by 2 and by 1) leave d odd and
\* s with d * 2^s = n - 1, and sprp(n, a) is true exactly when a^d mod n is 1
\* or n - 1 or a^(d * 2^r) mod n is n - 1 for some 1 <= r < s.
SprpDecomposes ==
    primality.called =>
        /\ Bit(primality.d, 0) = 1
        /\ primality.s \in 1..63
        /\ IsProduct(wrapping_sub(primality.n, U64(1)), primality.d,
                     PowerOfTwo(primality.s))
        /\ primality.ret =
              StrongProbable(primality.n, U64(primality.a), primality.d, primality.s)

\* sprp(257, 3): 256 = 1 * 2^8 after one shift by 8, and 3^128 mod 257 is 256
SprpWitness ==
    /\ primality.called
    /\ primality.n = U64(257)
    /\ primality.a = 3
    /\ primality.d = U64(1)
    /\ primality.s = 8
    /\ primality.ret
    /\ SquaredTimes(U64(3), 7, U64(257)) = U64(256)

============================================================================
